---- MODULE Spec2Model ----
(***************************************************************************)
(* Model of the UAQMP air-quality backend: the AQI converter of            *)
(* services/air-quality-service.ts and the gateway functions that call the *)
(* upstream provider and feed its observations into the converter.         *)
(*                                                                         *)
(* Numbers.  Concentrations are integers in hundredths of a microgram per  *)
(* cubic metre (12.1 ug/m3 is 1210), so every breakpoint of the source is  *)
(* an integer.  A JavaScript number is a record [nan, num, den]: NaN, or   *)
(* the exact rational num/den with den > 0.  The source computes in IEEE   *)
(* doubles; the model computes the same expressions exactly.               *)
(***************************************************************************)
EXTENDS Integers, Sequences, FiniteSets, TLC

(***************************************************************************)
(* JavaScript values and arithmetic                                        *)
(***************************************************************************)
NaN == [nan |-> TRUE, num |-> 0, den |-> 1]

Rat(n, d) == [nan |-> FALSE, num |-> n, den |-> d]

\* A value found in an upstream JSON body where a concentration is expected:
\* a number (c hundredths), an absent field (undefined), null, or a
\* non-numeric string.
Num(c) == [kind |-> "number", c |-> c]

Missing == [kind |-> "missing", c |-> 0]

Null == [kind |-> "null", c |-> 0]

Text == [kind |-> "text", c |-> 0]

\* ToNumber as the arithmetic operators apply it: undefined and a non-numeric
\* string give NaN, null gives 0.
ToNumber(x) ==
  CASE x.kind = "number" -> Rat(x.c, 1)
    [] x.kind = "null" -> Rat(0, 1)
    [] OTHER -> NaN

\* x <= bound, for a JSON value x and a numeric literal bound (hundredths):
\* false whenever x converts to NaN.
LessEq(x, bound) ==
  LET n == ToNumber(x) IN (~n.nan) /\ n.num <= bound * n.den

\* a <= b for two JavaScript numbers (false when either is NaN).  The two
\* rationals are compared by integer part, then by fractional part, which
\* keeps the products small.
JsLessEq(a, b) ==
  /\ ~a.nan
  /\ ~b.nan
  /\ LET qa == a.num \div a.den
         qb == b.num \div b.den
     IN \/ qa < qb
        \/ qa = qb /\ (a.num % a.den) * b.den <= (b.num % b.den) * a.den

JsEq(a, b) == JsLessEq(a, b) /\ JsLessEq(b, a)

\* Math.max(a, b, c): NaN when any argument is NaN.
MathMax3(a, b, c) ==
  IF a.nan \/ b.nan \/ c.nan THEN NaN
  ELSE LET ab == IF JsLessEq(a, b) THEN b ELSE a
       IN IF JsLessEq(ab, c) THEN c ELSE ab

\* Rounding towards zero in place of Math.round.
MathTrunc(x) ==
  IF x.nan THEN NaN ELSE Rat(x.num \div x.den, 1)

\* Math.round(x) = floor(x + 0.5); NaN stays NaN.
MathRound(x) ==
  IF x.nan THEN NaN ELSE Rat((2 * x.num + x.den) \div (2 * x.den), 1)

(***************************************************************************)
(* The AQI converter                                                       *)
(***************************************************************************)
\* linearScale without the offset of the target range.
linearScaleNoOffset(value, fromMin, fromMax, toMin, toMax) ==
  IF value.nan THEN NaN
  ELSE Rat((value.num - fromMin * value.den) * (toMax - toMin),
           (fromMax - fromMin) * value.den)

\* linearScale(value, fromMin, fromMax, toMin, toMax); value is a JavaScript
\* number, the four bounds are literals.
linearScale(value, fromMin, fromMax, toMin, toMax) ==
  IF value.nan THEN NaN
  ELSE Rat((value.num - fromMin * value.den) * (toMax - toMin)
             + toMin * (fromMax - fromMin) * value.den,
           (fromMax - fromMin) * value.den)

\* The PM2.5 chain with strict comparisons: a concentration on a segment's
\* upper bound falls into the next segment.
pm25AQIStrict(pm25) ==
  IF ~LessEq(pm25, 1200) \/ pm25 = Num(1200)
    THEN IF LessEq(pm25, 3540) /\ pm25 # Num(3540)
           THEN linearScale(ToNumber(pm25), 1210, 3540, 51, 100)
         ELSE IF LessEq(pm25, 5540) /\ pm25 # Num(5540)
           THEN linearScale(ToNumber(pm25), 3550, 5540, 101, 150)
         ELSE IF LessEq(pm25, 15040) /\ pm25 # Num(15040)
           THEN linearScale(ToNumber(pm25), 5550, 15040, 151, 200)
         ELSE IF LessEq(pm25, 25040) /\ pm25 # Num(25040)
           THEN linearScale(ToNumber(pm25), 15050, 25040, 201, 300)
         ELSE IF LessEq(pm25, 35040) /\ pm25 # Num(35040)
           THEN linearScale(ToNumber(pm25), 25050, 35040, 301, 400)
         ELSE linearScale(ToNumber(pm25), 35050, 50000, 401, 500)
  ELSE linearScale(ToNumber(pm25), 0, 1200, 0, 50)

\* The PM2.5 chain with the second segment starting at index 50, where the
\* first one ends.
pm25AQIContinuous(pm25) ==
  IF LessEq(pm25, 1200) THEN linearScale(ToNumber(pm25), 0, 1200, 0, 50)
  ELSE IF LessEq(pm25, 3540) THEN linearScale(ToNumber(pm25), 1210, 3540, 50, 100)
  ELSE IF LessEq(pm25, 5540) THEN linearScale(ToNumber(pm25), 3550, 5540, 101, 150)
  ELSE IF LessEq(pm25, 15040) THEN linearScale(ToNumber(pm25), 5550, 15040, 151, 200)
  ELSE IF LessEq(pm25, 25040) THEN linearScale(ToNumber(pm25), 15050, 25040, 201, 300)
  ELSE IF LessEq(pm25, 35040) THEN linearScale(ToNumber(pm25), 25050, 35040, 301, 400)
  ELSE linearScale(ToNumber(pm25), 35050, 50000, 401, 500)

pm25AQI(pm25) ==
  IF LessEq(pm25, 1200) THEN linearScale(ToNumber(pm25), 0, 1200, 0, 50)
  ELSE IF LessEq(pm25, 3540) THEN linearScale(ToNumber(pm25), 1210, 3540, 51, 100)
  ELSE IF LessEq(pm25, 5540) THEN linearScale(ToNumber(pm25), 3550, 5540, 101, 150)
  ELSE IF LessEq(pm25, 15040) THEN linearScale(ToNumber(pm25), 5550, 15040, 151, 200)
  ELSE IF LessEq(pm25, 25040) THEN linearScale(ToNumber(pm25), 15050, 25040, 201, 300)
  ELSE IF LessEq(pm25, 35040) THEN linearScale(ToNumber(pm25), 25050, 35040, 301, 400)
  ELSE linearScale(ToNumber(pm25), 35050, 50000, 401, 500)

\* The PM10 chain with the second segment scaled from 55 as if from 154: the
\* sub-index drops at the start of the second segment.
pm10AQIDrop(pm10) ==
  IF LessEq(pm10, 5400) THEN linearScale(ToNumber(pm10), 0, 5400, 0, 50)
  ELSE IF LessEq(pm10, 15400) THEN linearScale(ToNumber(pm10), 15400, 25400, 51, 100)
  ELSE IF LessEq(pm10, 25400) THEN linearScale(ToNumber(pm10), 15500, 25400, 101, 150)
  ELSE IF LessEq(pm10, 35400) THEN linearScale(ToNumber(pm10), 25500, 35400, 151, 200)
  ELSE linearScale(ToNumber(pm10), 35500, 50000, 201, 300)

pm10AQI(pm10) ==
  IF LessEq(pm10, 5400) THEN linearScale(ToNumber(pm10), 0, 5400, 0, 50)
  ELSE IF LessEq(pm10, 15400) THEN linearScale(ToNumber(pm10), 5500, 15400, 51, 100)
  ELSE IF LessEq(pm10, 25400) THEN linearScale(ToNumber(pm10), 15500, 25400, 101, 150)
  ELSE IF LessEq(pm10, 35400) THEN linearScale(ToNumber(pm10), 25500, 35400, 151, 200)
  ELSE linearScale(ToNumber(pm10), 35500, 50000, 201, 300)

\* The O3 chain with the sub-index held at 300 beyond the last breakpoint.
o3AQICapped(o3) ==
  IF LessEq(o3, 10800) THEN linearScale(ToNumber(o3), 0, 10800, 0, 50)
  ELSE IF LessEq(o3, 14000) THEN linearScale(ToNumber(o3), 10810, 14000, 51, 100)
  ELSE IF LessEq(o3, 17000) THEN linearScale(ToNumber(o3), 14010, 17000, 101, 150)
  ELSE IF LessEq(o3, 21000) THEN linearScale(ToNumber(o3), 17010, 21000, 151, 200)
  ELSE IF LessEq(o3, 40000) THEN linearScale(ToNumber(o3), 21010, 40000, 201, 300)
  ELSE Rat(300, 1)

o3AQI(o3) ==
  IF LessEq(o3, 10800) THEN linearScale(ToNumber(o3), 0, 10800, 0, 50)
  ELSE IF LessEq(o3, 14000) THEN linearScale(ToNumber(o3), 10810, 14000, 51, 100)
  ELSE IF LessEq(o3, 17000) THEN linearScale(ToNumber(o3), 14010, 17000, 101, 150)
  ELSE IF LessEq(o3, 21000) THEN linearScale(ToNumber(o3), 17010, 21000, 151, 200)
  ELSE linearScale(ToNumber(o3), 21010, 40000, 201, 300)

\* The converter with Math.floor in place of Math.round.
convertToStandardAQIFloor(openWeatherAQI, components) ==
  LET m == MathMax3(pm25AQI(components.pm2_5), pm10AQI(components.pm10),
                    o3AQI(components.o3))
  IN IF m.nan THEN NaN ELSE Rat(m.num \div m.den, 1)

\* The converter never letting the result fall below the vendor band
\* (vendor index 1-5 taken as 0, 50, 100, 150, 200).
convertToStandardAQIVendorFloor(openWeatherAQI, components) ==
  LET r == MathRound(MathMax3(pm25AQI(components.pm2_5),
                              pm10AQI(components.pm10),
                              o3AQI(components.o3)))
      band == Rat((openWeatherAQI - 1) * 50, 1)
  IN IF r.nan THEN r ELSE IF JsLessEq(r, band) THEN band ELSE r

\* convertToStandardAQI(openWeatherAQI, components): the rounded maximum of the
\* three sub-indices.  openWeatherAQI is only logged.
convertToStandardAQI(openWeatherAQI, components) ==
  MathRound(MathMax3(pm25AQI(components.pm2_5),
                     pm10AQI(components.pm10),
                     o3AQI(components.o3)))

getAqiColor(aqi) ==
  IF JsLessEq(aqi, Rat(50, 1)) THEN "green"
  ELSE IF JsLessEq(aqi, Rat(100, 1)) THEN "yellow"
  ELSE IF JsLessEq(aqi, Rat(150, 1)) THEN "orange"
  ELSE IF JsLessEq(aqi, Rat(200, 1)) THEN "red"
  ELSE IF JsLessEq(aqi, Rat(300, 1)) THEN "purple"
  ELSE "maroon"

\* getAqiCategory(aqi).level; the description is a fixed text bound to the
\* level and is carried as that level's name.
getAqiCategory(aqi) ==
  IF JsLessEq(aqi, Rat(50, 1)) THEN "Good"
  ELSE IF JsLessEq(aqi, Rat(100, 1)) THEN "Moderate"
  ELSE IF JsLessEq(aqi, Rat(150, 1)) THEN "Unhealthy for Sensitive Groups"
  ELSE IF JsLessEq(aqi, Rat(200, 1)) THEN "Unhealthy"
  ELSE IF JsLessEq(aqi, Rat(300, 1)) THEN "Very Unhealthy"
  ELSE "Hazardous"

(***************************************************************************)
(* Coordinate strings and parseFloat                                       *)
(***************************************************************************)
\* A query-string value is a sequence of tokens: a digit, a sign, a decimal
\* point, a letter, or the word Infinity (one token).
CoordTokens == {"1", "-", ".", "x", "Infinity"}

isDigit(t) == t \in {"0", "1", "2", "3", "4", "5", "6", "7", "8", "9"}

\* Number of leading digits of s from position i on.
RECURSIVE DigitRun(_, _)
DigitRun(s, i) ==
  IF i <= Len(s) /\ isDigit(s[i]) THEN 1 + DigitRun(s, i + 1) ELSE 0

\* parseFloat(s): the longest prefix of s that is a decimal literal, with an
\* optional sign: [kind, used] where kind is "nan" when there is no such
\* prefix, "infinity" for (+/-)Infinity and "finite" otherwise, and used is the
\* number of tokens the literal takes.
parseFloat(s) ==
  LET sign == IF Len(s) >= 1 /\ s[1] = "-" THEN 1 ELSE 0
      b == sign + 1
      ints == DigitRun(s, b)
      hasPoint == b + ints <= Len(s) /\ s[b + ints] = "."
      fracs == IF hasPoint THEN DigitRun(s, b + ints + 1) ELSE 0
  IN IF b <= Len(s) /\ s[b] = "Infinity" THEN [kind |-> "infinity", used |-> b]
     ELSE IF ints > 0
       THEN [kind |-> "finite",
             used |-> sign + ints + (IF hasPoint THEN 1 + fracs ELSE 0)]
     ELSE IF hasPoint /\ fracs > 0
       THEN [kind |-> "finite", used |-> sign + 1 + fracs]
     ELSE [kind |-> "nan", used |-> 0]

isNaN(n) == n.kind = "nan"

(***************************************************************************)
(* Upstream responses                                                      *)
(***************************************************************************)
ComponentFields == {"co", "no", "no2", "o3", "so2", "pm2_5", "pm10", "nh3"}

Components(pm25, pm10, o3, other) ==
  [co |-> other, no |-> other, no2 |-> other, o3 |-> o3, so2 |-> other,
   pm2_5 |-> pm25, pm10 |-> pm10, nh3 |-> other]

\* One entry of the provider's list: main.aqi (the vendor 1-5 index),
\* components and dt; hasMain / hasComponents are false when the field is
\* absent from the body.
Item(hasMain, aqi, hasComponents, components, dt) ==
  [hasMain |-> hasMain, aqi |-> aqi, hasComponents |-> hasComponents,
   components |-> components, dt |-> dt]

\* What one HTTP request to the provider comes to: a transport failure, a
\* timeout, a non-2xx status, or a 2xx response with a body that is empty,
\* lacks the list, or carries the list.
Response(kind, list) == [kind |-> kind, list |-> list]

FailureResponses ==
  {Response(k, << >>) : k \in {"network", "timeout", "status", "nodata", "nolist"}}

ResponsesOf(lists) == FailureResponses \cup {Response("list", l) : l \in lists}

\* The error axios throws for a response, "" when it resolves.
AxiosError(r, timeout) ==
  CASE r.kind = "network" -> "Network Error"
    [] r.kind = "timeout" -> timeout
    [] r.kind = "status" -> "Request failed with status code 401"
    [] OTHER -> ""

TypeErrorMain == "TypeError: Cannot read properties of undefined (reading 'aqi')"

TypeErrorComponents == "TypeError: Cannot read properties of undefined"

(***************************************************************************)
(* State                                                                   *)
(***************************************************************************)
VARIABLES
  envKey,               \* process.env.OPENWEATHER_API_KEY ("" when unset)
  OPENWEATHER_API_KEY,  \* the service module's key variable ("" when unset)
  op,                   \* the service function being executed
  lat, lon,             \* its arguments
  pc,                   \* where the call stands
  retryCount,           \* the retry loop's counter
  lastError,            \* the retry loop's lastError ("" when undefined)
  testRequests,         \* diagnostic requests issued by the call
  mainRequests,         \* main requests issued by the call
  testOutcome,          \* outcome of the current attempt's diagnostic request
  delays,               \* the backoff delays the call has waited, in ms
  received,             \* the upstream response of the latest main request
  result,               \* the value the call returned
  thrown,               \* the message of the error the call threw ("" if none)
  conv, prevConv,       \* converter calls made directly (latest and previous)
  cEnv,                 \* c.env: the keys bound to the worker ("" when unset)
  processEnv,           \* process.env: the other keys of the process
  constAssignment,      \* what the build makes of an assignment to a const
  genAI,                \* whether the news service holds a Gemini client
  SERPER_API_KEY,       \* the search service module's key variable
  now,                  \* Date.now(), in ms
  lastAirQualityData,   \* global.lastAirQualityData
  lastWrite,            \* the object most recently assigned to it
  serviceNewsCache,     \* newsCache of the news service
  routeNewsCache,       \* newsCache of the news route
  requests              \* the HTTP requests being handled, each with its locals

gatewayVars ==
  <<envKey, OPENWEATHER_API_KEY, op, lat, lon, pc, retryCount, lastError,
    testRequests, mainRequests, testOutcome, delays, received, result, thrown>>

\* The locals of the gateway call modelled above.
callVars ==
  <<op, lat, lon, pc, retryCount, lastError, testRequests, mainRequests,
    testOutcome, delays, received, result, thrown>>

configVars == <<cEnv, processEnv, constAssignment>>

routeVars ==
  <<configVars, genAI, SERPER_API_KEY, now, lastAirQualityData, lastWrite,
    serviceNewsCache, routeNewsCache, requests>>

vars == <<gatewayVars, conv, prevConv, routeVars>>

MAX_RETRIES == 3

FORECAST_HOURS == 24

MissingKeyCurrent ==
  "OpenWeather API key is missing. Make sure it's set in Cloudflare Worker environment variables."

MissingKeyOther ==
  "OpenWeather API key is missing. Check your environment variables."

InvalidCoordinates == "Invalid coordinates provided"

NoResult == [kind |-> "none"]

NoResponse == Response("none", << >>)

NoConversion == [called |-> FALSE]

\* Key arguments a caller may pass: none, or a key.
ApiKeyArgs == {"", "key"}

\* No key at all.
NoKeys ==
  [OPENWEATHER_API_KEY |-> "", GEMINI_API_KEY |-> "", SERPER_API_KEY |-> "",
   OPENROUTER_API_KEY |-> ""]

\* global.lastAirQualityData = null
NoObservation == [none |-> TRUE]

\* No gateway call running, no conversion made.
GatewayIdle ==
  /\ op = "none"
  /\ lat = << >>
  /\ lon = << >>
  /\ pc = "idle"
  /\ retryCount = 0
  /\ lastError = ""
  /\ testRequests = 0
  /\ mainRequests = 0
  /\ testOutcome = "none"
  /\ delays = << >>
  /\ received = NoResponse
  /\ result = NoResult
  /\ thrown = ""
  /\ conv = NoConversion
  /\ prevConv = NoConversion

\* The state of the modules once loaded, for the bindings env and the
\* process environment penv.
Loaded(env, penv) ==
  /\ cEnv = env
  /\ processEnv = penv
  /\ genAI = (penv.GEMINI_API_KEY # "")
  /\ SERPER_API_KEY = penv.SERPER_API_KEY
  /\ now = 0
  /\ lastAirQualityData = NoObservation
  /\ lastWrite = NoObservation
  /\ serviceNewsCache = {}
  /\ routeNewsCache = {}

\* The services alone: no bindings, no request.
Init ==
  /\ envKey \in {"", "key"}
  /\ OPENWEATHER_API_KEY = envKey
  /\ Loaded(NoKeys, NoKeys)
  /\ constAssignment = "throws"
  /\ requests = << >>
  /\ GatewayIdle

(***************************************************************************)
(* The gateway: getCurrentAirQuality, getAirQualityComponents,             *)
(* getAirQualityForecast                                                   *)
(***************************************************************************)
\* The key the function works with after its first two statements: the
\* argument if given, else the module variable, else process.env.
KeyAfterEntry(apiKey) ==
  LET k == IF apiKey # "" THEN apiKey ELSE OPENWEATHER_API_KEY
  IN IF k = "" THEN envKey ELSE k

\* Entry of a service function up to its retry loop.  A call starts when no
\* other call is running.
Enter(o, la, lo, apiKey, failure, first) ==
  /\ pc \in {"idle", "done"}
  /\ OPENWEATHER_API_KEY' = KeyAfterEntry(apiKey)
  /\ op' = o
  /\ lat' = la
  /\ lon' = lo
  /\ retryCount' = 0
  /\ lastError' = ""
  /\ testRequests' = 0
  /\ mainRequests' = 0
  /\ testOutcome' = "none"
  /\ delays' = << >>
  /\ received' = NoResponse
  /\ result' = NoResult
  /\ thrown' = failure
  /\ pc' = IF failure = "" THEN first ELSE "done"
  /\ UNCHANGED <<envKey, conv, prevConv, routeVars>>

\* The entry checks without the check of the coordinates.
CurrentEntryFailureKeyOnly(la, lo, apiKey) ==
  IF KeyAfterEntry(apiKey) = "" THEN MissingKeyCurrent ELSE ""

\* The checks getCurrentAirQuality makes before its loop: the key, then the
\* coordinates.
CurrentEntryFailure(la, lo, apiKey) ==
  IF KeyAfterEntry(apiKey) = "" THEN MissingKeyCurrent
  ELSE IF isNaN(parseFloat(la)) \/ isNaN(parseFloat(lo)) THEN InvalidCoordinates
  ELSE ""

getCurrentAirQuality(Coords) ==
  \E c \in Coords, apiKey \in ApiKeyArgs :
    Enter("current", c[1], c[2], apiKey,
          CurrentEntryFailure(c[1], c[2], apiKey), "test")

OtherEntryFailure(apiKey) ==
  IF KeyAfterEntry(apiKey) = "" THEN MissingKeyOther ELSE ""

getAirQualityComponents(Coords) ==
  \E c \in Coords, apiKey \in ApiKeyArgs :
    Enter("components", c[1], c[2], apiKey, OtherEntryFailure(apiKey), "main")

getAirQualityForecast(Coords) ==
  \E c \in Coords, apiKey \in ApiKeyArgs :
    Enter("forecast", c[1], c[2], apiKey, OtherEntryFailure(apiKey), "main")

\* The diagnostic request outside its own try block: its failure is caught by
\* the catch block of the attempt and counts as a failed attempt.
DirectApiTestCounted ==
  /\ pc = "test"
  /\ op = "current"
  /\ testRequests' = testRequests + 1
  /\ \E o \in {"answered", "failed"} :
       /\ testOutcome' = o
       /\ IF o = "answered"
            THEN /\ pc' = "main"
                 /\ UNCHANGED <<retryCount, lastError, thrown>>
          ELSE /\ lastError' = "Network Error"
               /\ retryCount' = retryCount + 1
               /\ pc' = IF retryCount + 1 < MAX_RETRIES THEN "backoff" ELSE "done"
               /\ thrown' = IF retryCount + 1 < MAX_RETRIES THEN ""
                            ELSE "Network Error"
  /\ UNCHANGED <<envKey, OPENWEATHER_API_KEY, op, lat, lon, mainRequests,
                 delays, received, result, conv, prevConv, routeVars>>

\* The diagnostic request that opens each attempt of getCurrentAirQuality:
\* whatever it comes to is logged and the attempt goes on.
DirectApiTest ==
  /\ pc = "test"
  /\ op = "current"
  /\ testRequests' = testRequests + 1
  /\ \E o \in {"answered", "failed"} : testOutcome' = o
  /\ pc' = "main"
  /\ UNCHANGED <<envKey, OPENWEATHER_API_KEY, op, lat, lon, retryCount,
                 lastError, mainRequests, delays, received, result, thrown,
                 conv, prevConv, routeVars>>

\* The object getCurrentAirQuality returns for the observation data = list[0].
currentResult(data, la, lo) ==
  LET openWeatherAqi == data.aqi
      standardAqi == convertToStandardAQI(openWeatherAqi, data.components)
  IN [kind |-> "current",
      timestamp |-> data.dt * 1000,
      aqi |-> standardAqi,
      openWeatherAqi |-> openWeatherAqi,
      level |-> getAqiCategory(standardAqi),
      description |-> getAqiCategory(standardAqi),
      color |-> getAqiColor(standardAqi),
      components |-> data.components,
      location |-> [lat |-> la, lon |-> lo],
      error |-> FALSE]

\* The error that ends an attempt of getCurrentAirQuality whose main request
\* came to r, "" when the attempt returns a result.
currentAttemptError(r) ==
  IF AxiosError(r, "timeout of 25000ms exceeded") # ""
    THEN AxiosError(r, "timeout of 25000ms exceeded")
  ELSE IF r.kind = "nodata" THEN "Empty response from OpenWeather API"
  ELSE IF r.kind = "nolist"
    THEN "Invalid API response structure: missing 'list' property"
  ELSE IF Len(r.list) = 0 THEN "OpenWeather API returned empty list"
  ELSE IF ~r.list[1].hasMain THEN TypeErrorMain
  ELSE IF ~r.list[1].hasComponents THEN TypeErrorComponents
  ELSE ""

ComponentNames ==
  [co |-> "Carbon Monoxide", no |-> "Nitrogen Monoxide",
   no2 |-> "Nitrogen Dioxide", o3 |-> "Ozone", so2 |-> "Sulphur Dioxide",
   pm2_5 |-> "Fine Particles", pm10 |-> "Coarse Particles", nh3 |-> "Ammonia"]

\* The object getAirQualityComponents returns.
componentsResult(components) ==
  [kind |-> "components",
   values |-> [f \in ComponentFields |->
                 [value |-> components[f], unit |-> "ug/m3",
                  name |-> ComponentNames[f]]]]

componentsAttemptError(r) ==
  IF AxiosError(r, "timeout of 30000ms exceeded") # ""
    THEN AxiosError(r, "timeout of 30000ms exceeded")
  ELSE IF r.kind \in {"nodata", "nolist"} \/ Len(r.list) = 0
    THEN "Invalid response structure from OpenWeather API"
  ELSE IF ~r.list[1].hasComponents THEN TypeErrorComponents
  ELSE ""

\* A slice that keeps one item more than asked for.
SliceThrough(list, n) == SubSeq(list, 1, IF Len(list) < n + 1 THEN Len(list) ELSE n + 1)

\* list.slice(0, n)
Slice(list, n) == SubSeq(list, 1, IF Len(list) < n THEN Len(list) ELSE n)

\* One entry of the forecast, from one item of the provider's list.
forecastEntry(item) ==
  LET openWeatherAqi == item.aqi
      standardAqi == convertToStandardAQI(openWeatherAqi, item.components)
  IN [timestamp |-> item.dt * 1000,
      airQuality |-> standardAqi,
      openWeatherAqi |-> openWeatherAqi,
      level |-> getAqiCategory(standardAqi),
      color |-> getAqiColor(standardAqi),
      components |-> item.components]

\* The object getAirQualityForecast returns.
forecastResult(list, la, lo) ==
  LET next24Hours == Slice(list, FORECAST_HOURS)
  IN [kind |-> "forecast",
      forecast |-> [i \in 1..Len(next24Hours) |-> forecastEntry(next24Hours[i])],
      location |-> [lat |-> la, lon |-> lo]]

\* forecastAttemptError without the check of the body: a 2xx response with
\* no list or an empty list counts as a forecast of no entries.
forecastAttemptErrorBodyUnchecked(r) ==
  IF AxiosError(r, "timeout of 30000ms exceeded") # ""
    THEN AxiosError(r, "timeout of 30000ms exceeded")
  ELSE ""

\* The map over the first 24 items throws at the first item that lacks main
\* or components.
forecastAttemptError(r) ==
  LET next24Hours == Slice(r.list, FORECAST_HOURS)
      bad == {i \in 1..Len(next24Hours) :
                ~next24Hours[i].hasMain \/ ~next24Hours[i].hasComponents}
      first == CHOOSE i \in bad : \A j \in bad : i <= j
  IN IF AxiosError(r, "timeout of 30000ms exceeded") # ""
       THEN AxiosError(r, "timeout of 30000ms exceeded")
     ELSE IF r.kind \in {"nodata", "nolist"} \/ Len(r.list) = 0
       THEN "Invalid forecast data received from OpenWeather API"
     ELSE IF bad = {} THEN ""
     ELSE IF ~next24Hours[first].hasMain THEN TypeErrorMain
     ELSE TypeErrorComponents

attemptError(o, r) ==
  CASE o = "current" -> currentAttemptError(r)
    [] o = "components" -> componentsAttemptError(r)
    [] OTHER -> forecastAttemptError(r)

attemptResult(o, r, la, lo) ==
  CASE o = "current" -> currentResult(r.list[1], la, lo)
    [] o = "components" -> componentsResult(r.list[1].components)
    [] OTHER -> forecastResult(r.list, la, lo)

\* The main request of an attempt in a loop that does not leave on success:
\* the result is kept and the loop waits and goes round again.
MainRequestLoopsOn(CurrentLists, ForecastLists) ==
  /\ pc = "main"
  /\ \E r \in ResponsesOf(IF op = "forecast" THEN ForecastLists ELSE CurrentLists) :
       LET err == attemptError(op, r)
           last == ~(retryCount + 1 < MAX_RETRIES)
       IN /\ received' = r
          /\ mainRequests' = mainRequests + 1
          /\ retryCount' = retryCount + 1
          /\ pc' = IF last THEN "done" ELSE "backoff"
          /\ IF err = ""
               THEN /\ result' = attemptResult(op, r, lat, lon)
                    /\ UNCHANGED <<lastError, thrown>>
               ELSE /\ lastError' = err
                    /\ thrown' = IF last /\ result = NoResult THEN err ELSE ""
                    /\ UNCHANGED result
  /\ UNCHANGED <<envKey, OPENWEATHER_API_KEY, op, lat, lon, testRequests,
                 testOutcome, delays, conv, prevConv, routeVars>>

\* The main request of an attempt and all that follows it up to the next
\* await: the function returns its result, or the catch block records the
\* error, counts the attempt and either starts the backoff wait or, the loop
\* being over, the function throws lastError.
MainRequest(CurrentLists, ForecastLists) ==
  /\ pc = "main"
  /\ \E r \in ResponsesOf(IF op = "forecast" THEN ForecastLists ELSE CurrentLists) :
       LET err == attemptError(op, r)
       IN /\ received' = r
          /\ mainRequests' = mainRequests + 1
          /\ IF err = ""
               THEN /\ result' = attemptResult(op, r, lat, lon)
                    /\ pc' = "done"
                    /\ UNCHANGED <<retryCount, lastError, thrown>>
               ELSE /\ lastError' = err
                    /\ retryCount' = retryCount + 1
                    /\ pc' = IF retryCount + 1 < MAX_RETRIES THEN "backoff" ELSE "done"
                    /\ thrown' = IF retryCount + 1 < MAX_RETRIES THEN "" ELSE err
                    /\ UNCHANGED result
  /\ UNCHANGED <<envKey, OPENWEATHER_API_KEY, op, lat, lon, testRequests,
                 testOutcome, delays, conv, prevConv, routeVars>>

\* Backoff with a wait that does not grow with the attempt.
BackoffFlat ==
  /\ pc = "backoff"
  /\ delays' = Append(delays, 1000)
  /\ pc' = IF op = "current" THEN "test" ELSE "main"
  /\ testOutcome' = "none"
  /\ UNCHANGED <<envKey, OPENWEATHER_API_KEY, op, lat, lon, retryCount,
                 lastError, testRequests, mainRequests, received, result,
                 thrown, conv, prevConv, routeVars>>

\* The backoff wait of the catch block elapses and the loop goes round.
Backoff ==
  /\ pc = "backoff"
  /\ delays' = Append(delays, retryCount * 1000)
  /\ pc' = IF op = "current" THEN "test" ELSE "main"
  /\ testOutcome' = "none"
  /\ UNCHANGED <<envKey, OPENWEATHER_API_KEY, op, lat, lon, retryCount,
                 lastError, testRequests, mainRequests, received, result,
                 thrown, conv, prevConv, routeVars>>

(***************************************************************************)
(* Converter calls made directly                                           *)
(***************************************************************************)
\* A call of convertToStandardAQI with its arguments, the sub-indices it
\* computed (its locals pm25AQI, pm10AQI, o3AQI) and the value it returned,
\* together with the category and colour of that value.
Conversion(openWeatherAQI, components) ==
  [called |-> TRUE,
   openWeatherAQI |-> openWeatherAQI,
   components |-> components,
   pm25AQI |-> pm25AQI(components.pm2_5),
   pm10AQI |-> pm10AQI(components.pm10),
   o3AQI |-> o3AQI(components.o3),
   aqi |-> convertToStandardAQI(openWeatherAQI, components),
   level |-> getAqiCategory(convertToStandardAQI(openWeatherAQI, components)),
   color |-> getAqiColor(convertToStandardAQI(openWeatherAQI, components))]

(***************************************************************************)
(* Inputs and specifications                                               *)
(***************************************************************************)
MaxForecastLen == 2

MaxCoordLen == 2

Near == 1

MaxExtra == 2

MaxTicks == 1

TickMs == 15 * 60 * 1000

\* All sequences over S of length at most n.
RECURSIVE SeqsUpTo(_, _)
SeqsUpTo(S, n) ==
  IF n = 0 THEN {<< >>}
  ELSE LET shorter == SeqsUpTo(S, n - 1)
       IN shorter \cup {Append(q, x) : q \in shorter, x \in S}

\* Concentrations the provider reports, per pollutant: absent, null or text,
\* negative, inside several segments, on a boundary, beyond the table.
Pm25Samples ==
  {Missing, Null, Num(-500), Num(1000), Num(1200), Num(1210), Num(4000), Num(60000)}

Pm10Samples == {Missing, Num(-500), Num(2000), Num(6000), Num(60000)}

O3Samples == {Text, Num(-500), Num(1500), Num(5000), Num(45000)}

OtherSamples == {Num(20000), Missing}

VendorAqis == {1, 5}

SampleItems ==
  {Item(TRUE, a, TRUE, Components(p25, p10, o3, x), 1700) :
     a \in VendorAqis, p25 \in Pm25Samples, p10 \in Pm10Samples,
     o3 \in O3Samples, x \in OtherSamples}
  \cup {Item(FALSE, 0, TRUE, Components(Num(1000), Num(2000), Num(1500), Num(20000)), 1700),
        Item(TRUE, 1, FALSE, Components(Missing, Missing, Missing, Missing), 1700)}

SampleLists == {<< >>} \cup {<<i>> : i \in SampleItems}

ForecastItems ==
  {Item(TRUE, 2, TRUE, Components(Num(1000), Num(2000), Num(1500), Num(20000)), 1700),
   Item(TRUE, 5, TRUE, Components(Num(60000), Num(6000), Num(5000), Num(20000)), 1701),
   Item(TRUE, 1, TRUE, Components(Num(-500), Num(-500), Num(-500), Num(20000)), 1702),
   Item(TRUE, 3, TRUE, Components(Missing, Num(6000), Num(5000), Missing), 1703),
   Item(TRUE, 1, FALSE, Components(Missing, Missing, Missing, Missing), 1704)}

\* The k-th item of an hourly forecast: timestamps an hour apart,
\* concentrations that differ from hour to hour.
HourlyItem(k) ==
  Item(TRUE, 1 + (k % 5), TRUE,
       Components(Num(1000 + 700 * (k % 7)), Num(2000 + 3000 * (k % 3)),
                  Num(1500 + 4000 * (k % 2)), Num(20000)),
       1700 + 3600 * k)

\* Hourly forecasts of about FORECAST_HOURS items: one item fewer, exactly as
\* many, and up to MaxExtra items more, starting at two different hours.
HourlyLists ==
  {[i \in 1..n |-> HourlyItem(i + k)] :
     n \in (FORECAST_HOURS - 1)..(FORECAST_HOURS + MaxExtra), k \in {0, 3}}

ForecastLists == SeqsUpTo(ForecastItems, MaxForecastLen) \cup HourlyLists

SampleCoords ==
  {<< <<"1", ".", "1">>, <<"-", "1">> >>, << <<"1">>, <<"1", "1">> >>}

\* The gateway, with a wide choice of observations.
Next ==
  \/ getCurrentAirQuality(SampleCoords)
  \/ getAirQualityComponents(SampleCoords)
  \/ getAirQualityForecast(SampleCoords)
  \/ DirectApiTest
  \/ MainRequest(SampleLists, ForecastLists)
  \/ Backoff

Spec == Init /\ [][Next]_vars

\* getCurrentAirQuality, with a wide choice of coordinate strings: every
\* string of at most MaxCoordLen tokens for one coordinate, next to a plain
\* number for the other.
CoordStrings == SeqsUpTo(CoordTokens, MaxCoordLen)

CoordPairs ==
  {<<s, <<"-", "1">> >> : s \in CoordStrings}
  \cup {<< <<"1", ".", "1">>, s>> : s \in CoordStrings}

PlainLists ==
  {<< >>,
   <<Item(TRUE, 2, TRUE, Components(Num(1000), Num(2000), Num(1500), Num(20000)), 1700)>>}

NextCoords ==
  \/ getCurrentAirQuality(CoordPairs)
  \/ DirectApiTest
  \/ MainRequest(PlainLists, PlainLists)
  \/ Backoff

SpecCoords == Init /\ [][NextCoords]_vars

\* The three gateway functions with the scheduling of the runtime: a request
\* that was sent returns or times out, and a timer that was set fires.
NextCalls ==
  \/ getCurrentAirQuality(SampleCoords)
  \/ getAirQualityComponents(SampleCoords)
  \/ getAirQualityForecast(SampleCoords)
  \/ DirectApiTest
  \/ MainRequest(PlainLists, PlainLists)
  \/ Backoff

SpecCalls ==
  /\ Init
  /\ [][NextCalls]_vars
  /\ WF_vars(DirectApiTest)
  /\ WF_vars(MainRequest(PlainLists, PlainLists))
  /\ WF_vars(Backoff)

\* The converter alone, on concentrations around every breakpoint of each
\* pollutant's table, inside every segment and gap, and beyond the table.
Pm25Points ==
  {0, 1200, 1210, 3540, 3550, 5540, 5550, 15040, 15050, 25040, 25050, 35040,
   35050, 50000,
   1000, 1205, 2000, 3545, 4000, 5545, 10000, 15045, 20000, 25045, 30000,
   35045, 42000, 60000}

Pm10Points ==
  {0, 5400, 5500, 15400, 15500, 25400, 25500, 35400, 35500, 50000,
   2000, 5450, 6000, 10000, 15450, 20000, 25450, 30000, 35450, 42000, 60000}

O3Points ==
  {0, 10800, 10810, 14000, 14010, 17000, 17010, 21000, 21010, 40000,
   1500, 5000, 10805, 12000, 14005, 16000, 17005, 19000, 21005, 30000, 45000}

DenseConcentrations(f) ==
  LET points == CASE f = "pm2_5" -> Pm25Points
                  [] f = "pm10" -> Pm10Points
                  [] OTHER -> O3Points
  IN {p + d : p \in points, d \in (0 - Near)..Near}

BaseComponents ==
  {Components(Num(0), Num(0), Num(0), Num(20000)),
   Components(Num(4000), Num(20000), Num(16000), Num(20000))}

\* A first call, on a base record with one pollutant f set to v.
ConvertFirst ==
  /\ ~conv.called
  /\ \E base \in BaseComponents, f \in {"pm2_5", "pm10", "o3"} :
       \E v \in DenseConcentrations(f) :
         conv' = Conversion(1, [base EXCEPT ![f] = Num(v)])
  /\ prevConv' = conv
  /\ UNCHANGED <<gatewayVars, routeVars>>

\* A second call, on the first call's record with one pollutant changed.
ConvertChanged ==
  /\ conv.called
  /\ ~prevConv.called
  /\ \E f \in {"pm2_5", "pm10", "o3"} :
       \E v \in DenseConcentrations(f) :
         conv' = Conversion(conv.openWeatherAQI,
                            [conv.components EXCEPT ![f] = Num(v)])
  /\ prevConv' = conv
  /\ UNCHANGED <<gatewayVars, routeVars>>

NextConv ==
  \/ ConvertFirst
  \/ ConvertChanged

SpecConv == Init /\ [][NextConv]_vars

(***************************************************************************)
(* Route handlers                                                          *)
(*                                                                         *)
(* A request is handled in steps, one for each stretch of its handler      *)
(* between two awaits; the steps of different requests interleave.  Each   *)
(* request keeps its locals in a record of requests; a step is a function  *)
(* from the request's locals and the shared state to their new values,     *)
(* made atomic by Commit.                                                  *)
(***************************************************************************)
NoBody == [pending |-> TRUE]

NoInput == [none |-> TRUE]

\* The locals of a request that has not come in.
IdleRequest ==
  [route |-> "none", pc |-> "idle", input |-> NoInput,
   op |-> "none", lat |-> << >>, lon |-> << >>, retryCount |-> 0,
   lastError |-> "", upstream |-> 0, result |-> NoResult, thrown |-> "",
   location |-> "", cacheKey |-> NoInput, cachedData |-> NoInput,
   startedAt |-> 0, searchResults |-> 0, airQualityData |-> NoObservation,
   attempts |-> 0, status |-> 0, body |-> NoBody,
   origin |-> "", method |-> "", headers |-> << >>,
   serviceCalls |-> 0, searchFailed |-> FALSE, caught |-> ""]

\* c.body(null, 204): a response without a body.
NullBody == [empty |-> TRUE]

allowedOrigins ==
  {"https://uaqmp.vercel.app",
   "https://uaqmp-git-main-hanishrishen.vercel.app",
   "http://localhost:3000", "http://localhost:3001"}

\* corsMiddleware naming an origin only when the request's origin is listed.
corsMiddlewareListedOnly(l) ==
  [l EXCEPT !.headers =
     (IF l.origin # "" /\ l.origin \in allowedOrigins
        THEN "Access-Control-Allow-Origin" :> l.origin ELSE << >>)
     @@ ("Access-Control-Allow-Methods" :> "GET, POST, PUT, DELETE, OPTIONS, PATCH")
     @@ ("Access-Control-Allow-Headers" :>
           "Content-Type, Authorization, Accept, X-Requested-With, Origin")
     @@ ("Access-Control-Max-Age" :> "86400")
     @@ ("Access-Control-Allow-Credentials" :> "true")]

\* corsMiddleware up to its check of the method: the headers it sets on the
\* context, which the response of the request will carry.  l.origin is the
\* Origin header of the request, "" when it has none.
corsMiddleware(l) ==
  [l EXCEPT !.headers =
     ("Access-Control-Allow-Origin" :>
        (IF l.origin # "" /\ l.origin \in allowedOrigins THEN l.origin ELSE "*"))
     @@ ("Access-Control-Allow-Methods" :> "GET, POST, PUT, DELETE, OPTIONS, PATCH")
     @@ ("Access-Control-Allow-Headers" :>
           "Content-Type, Authorization, Accept, X-Requested-With, Origin")
     @@ ("Access-Control-Max-Age" :> "86400")
     @@ ("Access-Control-Allow-Credentials" :> "true")]

\* A request of client i with the given method, as it reaches its route:
\* app.use("*", corsMiddleware) has set the headers and called next().
Arrived(i, method) ==
  corsMiddleware([IdleRequest EXCEPT !.origin = requests[i].origin,
                                     !.method = method])

\* The outcome of a step that leaves the shared state as it is.
Out(l) ==
  [local |-> l, slot |-> lastAirQualityData, written |-> FALSE,
   owKey |-> OPENWEATHER_API_KEY, serperKey |-> SERPER_API_KEY,
   genAI |-> genAI, serviceCache |-> serviceNewsCache,
   routeCache |-> routeNewsCache]

\* Request i takes a step with outcome o.
Commit(i, o) ==
  /\ requests' = [requests EXCEPT ![i] = o.local]
  /\ lastAirQualityData' = o.slot
  /\ lastWrite' = IF o.written THEN o.slot ELSE lastWrite
  /\ OPENWEATHER_API_KEY' = o.owKey
  /\ SERPER_API_KEY' = o.serperKey
  /\ genAI' = o.genAI
  /\ serviceNewsCache' = o.serviceCache
  /\ routeNewsCache' = o.routeCache
  /\ UNCHANGED <<envKey, callVars, conv, prevConv, configVars, now>>

\* return c.json(value, status)
Json(l, value, status) ==
  [l EXCEPT !.pc = "done", !.status = status, !.body = value]

\* The JSON object of a result of the gateway.
JsonOf(data) ==
  IF data.kind = "components" THEN data.values
  ELSE [f \in DOMAIN data \ {"kind"} |-> data[f]]

\* The parameter as it came, with no fallback.
QueryAsGiven(value, fallback) == value

\* An OPTIONS request to a path: corsMiddleware answers it itself and does
\* not call next().
Options(i, from, Paths) ==
  /\ requests[i].pc \in from
  /\ \E p \in Paths :
       LET l == [Arrived(i, "OPTIONS") EXCEPT !.input = [path |-> p]]
       IN Commit(i, Out(Json(l, NullBody, 204)))

Endpoints ==
  <<"/api/current", "/api/components", "/api/forecast",
    "/api/store-air-quality", "/api/news/air-quality", "/api/predict/hourly",
    "/api/predict/weekly", "/api/urban-planning/recommendations">>

\* GET /
GetRoot(i, from) ==
  /\ requests[i].pc \in from
  /\ LET l == [Arrived(i, "GET") EXCEPT !.route = "root",
                                        !.input = [path |-> "/"]]
     IN Commit(i, Out(Json(l, [message |-> "Welcome to UAQMP API",
                               version |-> "1.0.0",
                               endpoints |-> Endpoints], 200)))

\* c.req.query(name) || fallback: an absent or empty parameter gives the
\* fallback.
QueryOr(value, fallback) == IF value = << >> THEN fallback ELSE value

DefaultLat == <<"3", "7", ".", "7", "7", "4", "9">>

DefaultLon == <<"-", "1", "2", "2", ".", "4", "1", "9", "4">>

\* A call of a gateway function by the request of outcome o, up to its first
\* await: the call has ended with an error (pc "ended") or stands before its
\* first upstream request.
callService(o, svc, la, lo, apiKey) ==
  LET failure == IF svc = "current" THEN CurrentEntryFailure(la, lo, apiKey)
                 ELSE OtherEntryFailure(apiKey)
  IN [o EXCEPT !.owKey = KeyAfterEntry(apiKey),
               !.local = [o.local EXCEPT
                            !.op = svc, !.lat = la, !.lon = lo,
                            !.retryCount = 0, !.lastError = "",
                            !.result = NoResult, !.thrown = failure,
                            !.pc = IF failure # "" THEN "ended"
                                   ELSE IF svc = "current" THEN "test"
                                   ELSE "main"]]

\* What GET /current stores: the call's aqi, level, components and timestamp
\* with the coordinates of the request.
Observation(data, la, lo) ==
  [aqi |-> data.aqi, level |-> data.level, components |-> data.components,
   location |-> [lat |-> la, lon |-> lo], timestamp |-> data.timestamp]

\* GET /current that answers without touching global.lastAirQualityData.
currentReturnUnrecorded(o) ==
  IF o.local.thrown = ""
    THEN [o EXCEPT !.local = Json(o.local, JsonOf(o.local.result), 200)]
  ELSE [o EXCEPT !.local =
          Json(o.local, [error |-> "Failed to fetch air quality data"], 500)]

\* GET /current after its call of getCurrentAirQuality has ended.
currentReturn(o) ==
  IF o.local.thrown = ""
    THEN [o EXCEPT !.slot = Observation(o.local.result, o.local.lat, o.local.lon),
                   !.written = TRUE,
                   !.local = Json(o.local, JsonOf(o.local.result), 200)]
  ELSE [o EXCEPT !.local =
          Json(o.local, [error |-> "Failed to fetch air quality data"], 500)]

\* GET /components after its call of getAirQualityComponents has ended.
componentsReturn(o) ==
  IF o.local.thrown = ""
    THEN [o EXCEPT !.local = Json(o.local, JsonOf(o.local.result), 200)]
  ELSE [o EXCEPT !.local =
          Json(o.local, [error |-> "Failed to fetch air quality components"], 500)]

\* GET /forecast after its call of getAirQualityForecast has ended.
forecastReturn(o) ==
  IF o.local.thrown = ""
    THEN [o EXCEPT !.local = Json(o.local, JsonOf(o.local.result), 200)]
  ELSE [o EXCEPT !.local =
          Json(o.local, [error |-> "Failed to fetch forecast data"], 500)]

(***************************************************************************)
(* POST /store-air-quality                                                 *)
(***************************************************************************)
\* A request body: not JSON, the JSON null, or a JSON object with the keys
\* of has (the value of an absent key is not looked at).
Body(kind, has, aqi, level, components, location) ==
  [kind |-> kind, has |-> has, aqi |-> aqi, level |-> level,
   components |-> components, location |-> location]

\* !x for a key of a JSON object holding a number: absent, 0 and NaN are falsy.
FalsyNumber(data, key) ==
  key \notin data.has \/ data[key].nan \/ data[key].num = 0

\* !x for a key holding a string: absent and "" are falsy.
FalsyString(data, key) == key \notin data.has \/ data[key] = ""

\* !x for a key holding an object.
FalsyObject(data, key) == key \notin data.has

\* The handler that takes any body with an aqi key.
storeAirQualityAqiOnly(o) ==
  LET data == o.local.input
  IN IF data.kind # "object"
       THEN [o EXCEPT !.local =
               Json(o.local, [error |-> "Failed to store air quality data"], 500)]
     ELSE IF "aqi" \notin data.has
       THEN [o EXCEPT !.local =
               Json(o.local, [error |-> "Missing required air quality data"], 400)]
     ELSE [o EXCEPT
             !.slot = [aqi |-> data.aqi, level |-> data.level,
                       components |-> data.components,
                       location |-> IF FalsyObject(data, "location")
                                      THEN [lat |-> <<"0">>, lon |-> <<"0">>]
                                    ELSE data.location,
                       timestamp |-> now],
             !.written = TRUE,
             !.local = Json(o.local, [success |-> TRUE], 200)]

\* The handler once the body has been read: a body that does not parse and
\* a null body end in the catch block.
storeAirQuality(o) ==
  LET data == o.local.input
  IN IF data.kind # "object"
       THEN [o EXCEPT !.local =
               Json(o.local, [error |-> "Failed to store air quality data"], 500)]
     ELSE IF \/ FalsyNumber(data, "aqi")
             \/ FalsyString(data, "level")
             \/ FalsyObject(data, "components")
       THEN [o EXCEPT !.local =
               Json(o.local, [error |-> "Missing required air quality data"], 400)]
     ELSE [o EXCEPT
             !.slot = [aqi |-> data.aqi, level |-> data.level,
                       components |-> data.components,
                       location |-> IF FalsyObject(data, "location")
                                      THEN [lat |-> <<"0">>, lon |-> <<"0">>]
                                    ELSE data.location,
                       timestamp |-> now],
             !.written = TRUE,
             !.local = Json(o.local, [success |-> TRUE], 200)]

\* The request comes in; the handler awaits the body.
PostStoreAirQuality(i, from, Bodies) ==
  /\ requests[i].pc \in from
  /\ \E b \in Bodies :
       Commit(i, Out([Arrived(i, "POST") EXCEPT
                        !.route = "store", !.input = b, !.pc = "body"]))

StoreAirQualityBody(i) ==
  /\ requests[i].pc = "body"
  /\ requests[i].route = "store"
  /\ Commit(i, storeAirQuality(Out(requests[i])))

(***************************************************************************)
(* POST /recommendations                                                   *)
(***************************************************************************)
\* The handler once the body has been read, up to the request to OpenRouter.
recommendations(o) ==
  LET body == o.local.input
      apiKey == IF cEnv.OPENROUTER_API_KEY # "" THEN cEnv.OPENROUTER_API_KEY
                ELSE processEnv.OPENROUTER_API_KEY
  IN IF body.kind # "object"
       THEN [o EXCEPT !.local =
               Json(o.local,
                    [error |-> "Request failed",
                     message |-> IF body.kind = "invalid"
                                   THEN "Unexpected end of JSON input"
                                 ELSE "Cannot destructure property 'prompt' of 'body' as it is null."],
                    500)]
     ELSE IF FalsyString(body, "prompt")
       THEN [o EXCEPT !.local =
               Json(o.local, [error |-> "Prompt is required"], 400)]
     ELSE IF apiKey # ""
       THEN [o EXCEPT !.local = [o.local EXCEPT !.pc = "fetch"]]
     ELSE [o EXCEPT !.local =
             Json(o.local,
                  [recommendation |-> "generateDynamicRecommendations",
                   source |-> "fallback"], 200)]

PostRecommendations(i, from, Bodies) ==
  /\ requests[i].pc \in from
  /\ \E b \in Bodies :
       Commit(i, Out([Arrived(i, "POST") EXCEPT
                        !.route = "recommendations", !.input = b,
                        !.pc = "body"]))

RecommendationsBody(i) ==
  /\ requests[i].pc = "body"
  /\ requests[i].route = "recommendations"
  /\ Commit(i, recommendations(Out(requests[i])))

\* What the request to OpenRouter comes to: a completion with content, a
\* completion whose first choice has no content, a 2xx body without choices,
\* a non-2xx status, a transport failure.
OpenRouterOutcomes == {"content", "empty", "nochoices", "status", "network"}

\* The request to OpenRouter and the rest of the handler.
RecommendationsFetch(i) ==
  /\ requests[i].pc = "fetch"
  /\ \E outcome \in OpenRouterOutcomes :
       LET l == [requests[i] EXCEPT !.upstream = @ + 1]
       IN Commit(i, Out(
            IF outcome = "content"
              THEN Json(l, [recommendation |-> "content",
                            source |-> "openrouter"], 200)
            ELSE IF outcome = "empty"
              THEN Json(l, [recommendation |-> "No recommendation could be generated.",
                            source |-> "openrouter"], 200)
            ELSE Json(l, [recommendation |-> "generateDynamicRecommendations",
                          source |-> "fallback"], 200)))

(***************************************************************************)
(* GET /news/air-quality and geminiService.getAirQualityNews               *)
(***************************************************************************)
CACHE_DURATION == 30 * 60 * 1000

CACHE_TTL == 60 * 60 * 1000

maxAttempts == 3

DigitValue(t) ==
  CASE t = "0" -> 0 [] t = "1" -> 1 [] t = "2" -> 2 [] t = "3" -> 3
    [] t = "4" -> 4 [] t = "5" -> 5 [] t = "6" -> 6 [] t = "7" -> 7
    [] t = "8" -> 8 [] OTHER -> 9

\* The value of the n digits of s that end at position i.
RECURSIVE DigitsValue(_, _, _)
DigitsValue(s, i, n) ==
  IF n = 0 THEN 0 ELSE 10 * DigitsValue(s, i - 1, n - 1) + DigitValue(s[i])

\* parseInt(s, 10): the integer of the leading digits after an optional
\* minus sign, NaN when there is none.
parseInt(s) ==
  LET sign == IF Len(s) >= 1 /\ s[1] = "-" THEN 1 ELSE 0
      ints == DigitRun(s, sign + 1)
      value == DigitsValue(s, sign + ints, ints)
  IN IF ints = 0 THEN NaN
     ELSE Rat(IF sign = 1 THEN 0 - value ELSE value, 1)

toLowerCase(s) ==
  CASE s = "Chennai" -> "chennai"
    [] s = "Global" -> "global"
    [] OTHER -> s

\* A cache is a set of entries, at most one for a key.
CacheGet(cache, key) == {e \in cache : e.key = key}

CachePut(cache, key, data, timestamp) ==
  {e \in cache : e.key # key}
  \cup {[key |-> key, data |-> data, timestamp |-> timestamp]}

\* `${global.lastAirQualityData?.aqi || "unknown"}`
AqiOrUnknown(slot) ==
  IF slot = NoObservation \/ slot.aqi.nan \/ slot.aqi.num = 0
    THEN [unknown |-> TRUE]
  ELSE slot.aqi

\* The rest of the route once the service has returned news: the route
\* caches what it got under the key it computed and sends it.
newsRouteReturn(o, news) ==
  [o EXCEPT !.routeCache = CachePut(o.routeCache, o.local.cacheKey, news, now),
            !.local = Json(o.local, news, 200)]

\* A catch block that hands the error on: the route's own catch block answers
\* the request.
newsServiceCatchRethrown(o, message) ==
  [o EXCEPT !.local =
     Json([o.local EXCEPT !.caught = message],
          [error |-> "Failed to fetch news data", articles |-> 0,
           aiSummary |-> [kind |-> "generic"]],
          500)]

\* The catch block of getAirQualityNews, having caught an error with the
\* given message: the cached response of the location whatever its age, else
\* the error as the summary.
newsServiceCatch(o, message) ==
  LET cached == CacheGet(o.serviceCache, toLowerCase(o.local.location))
  IN newsRouteReturn([o EXCEPT !.local = [o.local EXCEPT !.caught = message]],
       IF cached # {} THEN (CHOOSE e \in cached : TRUE).data
       ELSE [articles |-> 0,
             aiSummary |-> [kind |-> "error", message |-> message]])

\* getAirQualityNews from its entry to its first await: the service's cache,
\* the keys of env, the check of the Gemini client.
getAirQualityNews(o) ==
  LET cached == CacheGet(o.serviceCache, toLowerCase(o.local.location))
      entry == CHOOSE e \in cached : TRUE
      o1 == [o EXCEPT !.local = [o.local EXCEPT
                                   !.cachedData = IF cached = {} THEN NoInput
                                                  ELSE entry,
                                   !.startedAt = now,
                                   !.serviceCalls = @ + 1]]
      o2 == [o1 EXCEPT
               !.genAI = o.genAI \/ cEnv.GEMINI_API_KEY # "",
               !.serperKey = IF cEnv.SERPER_API_KEY # ""
                               THEN cEnv.SERPER_API_KEY ELSE o.serperKey,
               !.owKey = IF cEnv.OPENWEATHER_API_KEY # ""
                           THEN cEnv.OPENWEATHER_API_KEY ELSE o.owKey]
  IN IF cached # {} /\ now - entry.timestamp < CACHE_TTL
       THEN newsRouteReturn(o1, entry.data)
     ELSE IF cEnv.GEMINI_API_KEY # "" /\ constAssignment = "throws"
       THEN newsServiceCatch(o1, "Assignment to constant variable.")
     ELSE IF ~o2.genAI
       THEN newsServiceCatch(o2,
              "Gemini API client could not be initialized with provided API key")
     ELSE [o2 EXCEPT !.local = [o1.local EXCEPT !.pc = "search"]]

\* A query of the news route: location, aqi and level ("" or << >> when
\* absent).
NewsQuery(location, aqi, level) ==
  [location |-> location, aqi |-> aqi, level |-> level]

\* The route from the arrival of the request to its first await.
GetNewsAirQuality(i, from, Queries) ==
  /\ requests[i].pc \in from
  /\ \E q \in Queries :
       LET location == IF q.location = "" THEN "global" ELSE q.location
           slot == IF /\ q.aqi # << >>
                      /\ q.level # ""
                      /\ lastAirQualityData # NoObservation
                    THEN [lastAirQualityData EXCEPT !.aqi = parseInt(q.aqi),
                                                    !.level = q.level]
                  ELSE lastAirQualityData
           cacheKey == [location |-> location, aqi |-> AqiOrUnknown(slot)]
           l == [Arrived(i, "GET") EXCEPT !.route = "news", !.input = q,
                                          !.location = location,
                                          !.cacheKey = cacheKey]
           o == [Out(l) EXCEPT !.slot = slot]
           cached == CacheGet(routeNewsCache, cacheKey)
           entry == CHOOSE e \in cached : TRUE
       IN Commit(i, IF cached # {} /\ now - entry.timestamp < CACHE_DURATION
                      THEN [o EXCEPT !.local = Json(l, entry.data, 200)]
                    ELSE getAirQualityNews(o))

AmbatturLat ==
  <<"1", "3", ".", "0", "3", "9", "8", "3", "5", "2", "2", "6", "9", "1", "2",
    "8", "2", "5">>

AmbatturLon ==
  <<"8", "0", ".", "1", "7", "8", "1", "2", "2", "7", "8", "9", "6", "1", "4",
    "8", "5">>

\* The data the news service makes up when it has no observation and its own
\* call of getCurrentAirQuality fails.
FallbackAirQuality ==
  [aqi |-> Rat(50, 1), level |-> "Moderate",
   components |-> [co |-> Num(20000), no |-> Num(50), no2 |-> Num(1000),
                   o3 |-> Num(5000), so2 |-> Num(500), pm2_5 |-> Num(2500),
                   pm10 |-> Num(3000), nh3 |-> Num(100)],
   location |-> [lat |-> <<"0">>, lon |-> <<"0">>],
   timestamp |-> now]

\* The news service after its own call of getCurrentAirQuality has ended:
\* it goes on to the summary with that observation or with made-up data.
newsAfterCurrent(o) ==
  LET data == o.local.result
  IN [o EXCEPT !.local =
        [o.local EXCEPT
           !.airQualityData =
              IF o.local.thrown = ""
                THEN [aqi |-> data.aqi, level |-> data.level,
                      components |-> data.components,
                      location |-> data.location,
                      timestamp |-> data.timestamp]
              ELSE FallbackAirQuality,
           !.attempts = 0,
           !.pc = "summary"]]

\* serperService.search has returned n articles, none when it has no key or
\* when its request failed and its catch block returned an empty list: the
\* service reads global.lastAirQualityData and goes on to the summary, by
\* way of its own call of getCurrentAirQuality when there is no observation.
NewsSearch(i, Counts, Failures) ==
  /\ requests[i].pc = "search"
  /\ \E failed \in (IF SERPER_API_KEY = "" THEN {FALSE} ELSE Failures) :
     \E n \in (IF SERPER_API_KEY = "" \/ failed THEN {0} ELSE Counts) :
       LET l == [requests[i] EXCEPT
                   !.searchResults = n,
                   !.searchFailed = failed,
                   !.upstream = IF SERPER_API_KEY = "" THEN @ ELSE @ + 1]
           called == callService(Out(l), "current", AmbatturLat, AmbatturLon, "")
       IN Commit(i,
            IF n = 0 /\ l.cachedData # NoInput
              THEN newsRouteReturn(Out(l), l.cachedData.data)
            ELSE IF lastAirQualityData # NoObservation
              THEN Out([l EXCEPT !.airQualityData = lastAirQualityData,
                                 !.attempts = 0,
                                 !.pc = "summary"])
            ELSE IF called.local.pc = "ended" THEN newsAfterCurrent(called)
            ELSE called)

\* One attempt of generateAirQualitySummary: the summary ends the service
\* call, which caches its response under the time of its entry; a failure is
\* retried after a wait until maxAttempts have been made, then thrown to the
\* catch block of the service.
NewsSummary(i) ==
  /\ requests[i].pc = "summary"
  /\ \E ok \in BOOLEAN :
       LET l == [requests[i] EXCEPT !.attempts = @ + 1, !.upstream = @ + 1]
           responseData ==
             [articles |-> l.searchResults,
              aiSummary |-> [kind |-> "summary", location |-> l.location,
                             airQualityData |-> l.airQualityData,
                             articles |-> l.searchResults]]
           o == Out(l)
       IN Commit(i,
            IF ok
              THEN newsRouteReturn(
                     [o EXCEPT !.serviceCache =
                        CachePut(o.serviceCache, toLowerCase(l.location),
                                 responseData, l.startedAt)],
                     responseData)
            ELSE IF l.attempts < maxAttempts
              THEN Out([l EXCEPT !.pc = "summaryWait"])
            ELSE newsServiceCatch(o, "API Error: Response too short, likely an error"))

\* The wait between two attempts of the summary has elapsed.
NewsSummaryWait(i) ==
  /\ requests[i].pc = "summaryWait"
  /\ Commit(i, Out([requests[i] EXCEPT !.pc = "summary"]))

(***************************************************************************)
(* GET /current, /components, /forecast                                    *)
(***************************************************************************)
\* The caller of the gateway call goes on once the call has ended.
serviceReturn(o) ==
  CASE o.local.route = "current" -> currentReturn(o)
    [] o.local.route = "components" -> componentsReturn(o)
    [] o.local.route = "forecast" -> forecastReturn(o)
    [] OTHER -> newsAfterCurrent(o)

\* A request to one of the three routes, up to its first await: the
\* coordinates with their defaults, the worker's key handed to setApiKey and
\* to the gateway function.
GetAirQuality(i, route, from, Queries) ==
  /\ requests[i].pc \in from
  /\ \E q \in Queries :
       LET l == [Arrived(i, "GET") EXCEPT
                   !.route = route, !.input = [lat |-> q[1], lon |-> q[2]]]
           o == callService(Out(l), route, QueryOr(q[1], DefaultLat),
                            QueryOr(q[2], DefaultLon),
                            cEnv.OPENWEATHER_API_KEY)
       IN Commit(i, IF o.local.pc = "ended" THEN serviceReturn(o) ELSE o)

GetCurrent(i, from, Queries) == GetAirQuality(i, "current", from, Queries)

GetComponents(i, from, Queries) == GetAirQuality(i, "components", from, Queries)

GetForecast(i, from, Queries) == GetAirQuality(i, "forecast", from, Queries)

\* The diagnostic request of an attempt of getCurrentAirQuality.
RequestDirectApiTest(i) ==
  /\ requests[i].pc = "test"
  /\ Commit(i, Out([requests[i] EXCEPT !.pc = "main", !.upstream = @ + 1]))

\* The main request of an attempt, with the return of the call or the catch
\* block, and with what the caller does once the call has ended.
RequestMain(i, CurrentResponses, ForecastResponses) ==
  /\ requests[i].pc = "main"
  /\ \E r \in (IF requests[i].op = "forecast" THEN ForecastResponses
               ELSE CurrentResponses) :
       LET l == [requests[i] EXCEPT !.upstream = @ + 1]
           err == attemptError(l.op, r)
           count == l.retryCount + 1
       IN Commit(i,
            IF err = ""
              THEN serviceReturn(Out(
                     [l EXCEPT !.result = attemptResult(l.op, r, l.lat, l.lon),
                               !.pc = "ended"]))
            ELSE IF count < MAX_RETRIES
              THEN Out([l EXCEPT !.lastError = err, !.retryCount = count,
                                 !.pc = "backoff"])
            ELSE serviceReturn(Out(
                   [l EXCEPT !.lastError = err, !.retryCount = count,
                             !.thrown = err, !.pc = "ended"])))

\* The backoff wait has elapsed.
RequestBackoff(i) ==
  /\ requests[i].pc = "backoff"
  /\ Commit(i, Out([requests[i] EXCEPT
                      !.pc = IF requests[i].op = "current" THEN "test"
                             ELSE "main"]))

\* Time passes.
Tick ==
  /\ now < MaxTicks * TickMs
  /\ now' = now + TickMs
  /\ UNCHANGED <<gatewayVars, conv, prevConv, configVars, genAI,
                 SERPER_API_KEY, lastAirQualityData, lastWrite,
                 serviceNewsCache, routeNewsCache, requests>>

(***************************************************************************)
(* Requests and specifications of the routes                               *)
(***************************************************************************)
\* Queries of the three air-quality routes: each coordinate absent, a plain
\* number, or (lat) a string that is no number.
RouteQueries ==
  {<<la, lo>> : la \in {<< >>, <<"1", ".", "1">>, <<"x">>},
                lo \in {<< >>, <<"-", "1">>}}

RouteItems ==
  {Item(TRUE, 2, TRUE, Components(Num(1000), Num(2000), Num(1500), Num(20000)), 1700),
   Item(TRUE, 4, TRUE, Components(Num(6000), Num(2000), Num(1500), Num(20000)), 1701)}

RouteResponses ==
  {Response("network", << >>), Response("status", << >>),
   Response("list", << >>)}
  \cup {Response("list", <<x>>) : x \in RouteItems}

RouteForecastResponses ==
  {Response("network", << >>), Response("nolist", << >>)}
  \cup {Response("list", l) : l \in SeqsUpTo(RouteItems, MaxForecastLen) \ {<< >>}}

SomeComponents == Components(Num(1000), Num(2000), Num(1500), Num(20000))

\* Bodies sent to POST /store-air-quality: one that does not parse, null, and
\* an object with every choice of keys and an aqi of 0 or 42.
StoreBodies ==
  {Body("invalid", {}, Rat(0, 1), "", SomeComponents, NoInput),
   Body("null", {}, Rat(0, 1), "", SomeComponents, NoInput)}
  \cup {Body("object", has,
             IF "aqi" \in has THEN a ELSE Rat(0, 1),
             IF "level" \in has THEN lv ELSE "",
             SomeComponents,
             IF "location" \in has THEN [lat |-> <<"1">>, lon |-> <<"-", "1">>]
             ELSE NoInput) :
          has \in SUBSET {"aqi", "level", "components", "location"},
          a \in {Rat(0, 1), Rat(42, 1)}, lv \in {"Good"}}

\* Bodies sent to POST /recommendations.
RecommendationBodies ==
  {[kind |-> "invalid", has |-> {}, prompt |-> ""],
   [kind |-> "null", has |-> {}, prompt |-> ""],
   [kind |-> "object", has |-> {}, prompt |-> ""],
   [kind |-> "object", has |-> {"prompt"}, prompt |-> ""],
   [kind |-> "object", has |-> {"prompt"}, prompt |-> "Elevation 16m"]}

\* One request at a time, of any of the routes, on a worker with or without
\* its keys.
InitRoutes ==
  /\ envKey \in {"", "key"}
  /\ OPENWEATHER_API_KEY = envKey
  /\ \E ow \in {"", "key"}, orKey \in {"", "key"} :
       Loaded([NoKeys EXCEPT !.OPENWEATHER_API_KEY = ow,
                             !.OPENROUTER_API_KEY = orKey],
              NoKeys)
  /\ constAssignment = "throws"
  /\ requests = [i \in {"request"} |-> IdleRequest]
  /\ GatewayIdle

ThenNext == {"idle", "done"}

NextRoutes ==
  \/ \E i \in DOMAIN requests : GetCurrent(i, ThenNext, RouteQueries)
  \/ \E i \in DOMAIN requests : GetComponents(i, ThenNext, RouteQueries)
  \/ \E i \in DOMAIN requests : GetForecast(i, ThenNext, RouteQueries)
  \/ \E i \in DOMAIN requests : RequestDirectApiTest(i)
  \/ \E i \in DOMAIN requests :
       RequestMain(i, RouteResponses, RouteForecastResponses)
  \/ \E i \in DOMAIN requests : RequestBackoff(i)
  \/ \E i \in DOMAIN requests : PostStoreAirQuality(i, ThenNext, StoreBodies)
  \/ \E i \in DOMAIN requests : StoreAirQualityBody(i)
  \/ \E i \in DOMAIN requests :
       PostRecommendations(i, ThenNext, RecommendationBodies)
  \/ \E i \in DOMAIN requests : RecommendationsBody(i)
  \/ \E i \in DOMAIN requests : RecommendationsFetch(i)
  \/ Tick

SpecRoutes == InitRoutes /\ [][NextRoutes]_vars

\* Two requests that write global.lastAirQualityData and one request for the
\* news summary, handled concurrently, each made once.
Writers == {"writer1", "writer2"}

NewsReaders == {"news"}

WriterQueries == {<< <<"1", ".", "1">>, <<"-", "1">> >>, << <<"2">>, <<"3">> >>}

WriterResponses ==
  {Response("network", << >>),
   Response("list", <<Item(TRUE, 2, TRUE, SomeComponents, 1700)>>)}

WriterBodies ==
  {Body("object", {"aqi", "level", "components"}, Rat(42, 1), "Good",
        SomeComponents, NoInput),
   Body("object", {"aqi", "level"}, Rat(42, 1), "Good", SomeComponents, NoInput)}

NewsQueries ==
  {NewsQuery("Chennai", << >>, ""), NewsQuery("Chennai", <<"9", "9">>, "Poor")}

InitSlot ==
  /\ envKey = "key"
  /\ OPENWEATHER_API_KEY = envKey
  /\ Loaded([NoKeys EXCEPT !.OPENWEATHER_API_KEY = "key"],
            [NoKeys EXCEPT !.GEMINI_API_KEY = "key", !.SERPER_API_KEY = "key"])
  /\ constAssignment = "throws"
  /\ requests = [i \in Writers \cup NewsReaders |-> IdleRequest]
  /\ GatewayIdle

Once == {"idle"}

NextSlot ==
  \/ \E i \in Writers : GetCurrent(i, Once, WriterQueries)
  \/ \E i \in Writers : PostStoreAirQuality(i, Once, WriterBodies)
  \/ \E i \in Writers : StoreAirQualityBody(i)
  \/ \E i \in NewsReaders : GetNewsAirQuality(i, Once, NewsQueries)
  \/ \E i \in NewsReaders : NewsSearch(i, {0, 2}, {FALSE})
  \/ \E i \in NewsReaders : NewsSummary(i)
  \/ \E i \in NewsReaders : NewsSummaryWait(i)
  \/ \E i \in DOMAIN requests : RequestDirectApiTest(i)
  \/ \E i \in DOMAIN requests : RequestMain(i, WriterResponses, WriterResponses)
  \/ \E i \in DOMAIN requests : RequestBackoff(i)

SpecSlot == InitSlot /\ [][NextSlot]_vars

(***************************************************************************)
(* The breakpoint tables as the specification lists them                   *)
(***************************************************************************)
\* One client with or without an Origin header, listed or not, sending
\* request after request of any method to a worker that has all its keys.
Clients == {"client"}

InitCors ==
  /\ envKey = "key"
  /\ OPENWEATHER_API_KEY = envKey
  /\ Loaded([NoKeys EXCEPT !.OPENWEATHER_API_KEY = "key",
                           !.OPENROUTER_API_KEY = "key"],
            [NoKeys EXCEPT !.GEMINI_API_KEY = "key", !.SERPER_API_KEY = "key"])
  /\ constAssignment = "throws"
  /\ \E o \in {"", "https://uaqmp.vercel.app", "https://example.org"} :
       requests = [i \in Clients |-> [IdleRequest EXCEPT !.origin = o]]
  /\ GatewayIdle

NextCors ==
  \/ \E i \in Clients :
       Options(i, ThenNext,
               {"/", "/api/current", "/api/store-air-quality", "/nowhere"})
  \/ \E i \in Clients : GetRoot(i, ThenNext)
  \/ \E i \in Clients : GetCurrent(i, ThenNext, WriterQueries)
  \/ \E i \in Clients : GetComponents(i, ThenNext, WriterQueries)
  \/ \E i \in Clients : GetForecast(i, ThenNext, WriterQueries)
  \/ \E i \in Clients : RequestDirectApiTest(i)
  \/ \E i \in Clients : RequestMain(i, WriterResponses, WriterResponses)
  \/ \E i \in Clients : RequestBackoff(i)
  \/ \E i \in Clients : PostStoreAirQuality(i, ThenNext, WriterBodies)
  \/ \E i \in Clients : StoreAirQualityBody(i)
  \/ \E i \in Clients : PostRecommendations(i, ThenNext, RecommendationBodies)
  \/ \E i \in Clients : RecommendationsBody(i)
  \/ \E i \in Clients : RecommendationsFetch(i)
  \/ \E i \in Clients : GetNewsAirQuality(i, ThenNext, NewsQueries)
  \/ \E i \in Clients : NewsSearch(i, {0, 2}, {FALSE})
  \/ \E i \in Clients : NewsSummary(i)
  \/ \E i \in Clients : NewsSummaryWait(i)

SpecCors == InitCors /\ [][NextCors]_vars

\* The news summary: one client that stores observations, asks for the
\* current air quality and asks for the news, request after request, while
\* time passes; the worker has its OpenWeather and Serper keys, and a Gemini
\* key in its bindings or nowhere.
MaxNewsTicks == 2

\* Time passes, half an hour at a time.
NewsTick ==
  /\ now < MaxNewsTicks * CACHE_DURATION
  /\ now' = now + CACHE_DURATION
  /\ UNCHANGED <<gatewayVars, conv, prevConv, configVars, genAI,
                 SERPER_API_KEY, lastAirQualityData, lastWrite,
                 serviceNewsCache, routeNewsCache, requests>>

\* GEMINI_API_KEY of process.env and of the bindings, and what the build
\* makes of the assignment to genAI in setGeminiApiKey.
GeminiSetups ==
  {<<"", "", "throws">>, <<"", "key", "throws">>, <<"", "key", "assigns">>}

InitNews ==
  /\ envKey = "key"
  /\ OPENWEATHER_API_KEY = envKey
  /\ \E g \in GeminiSetups :
       /\ Loaded([NoKeys EXCEPT !.OPENWEATHER_API_KEY = "key",
                                !.GEMINI_API_KEY = g[2]],
                 [NoKeys EXCEPT !.GEMINI_API_KEY = g[1],
                                !.SERPER_API_KEY = "key"])
       /\ constAssignment = g[3]
  /\ requests = [i \in Clients |-> IdleRequest]
  /\ GatewayIdle

\* The bodies stored carry an aqi of 42 or 77.
NewsStoreBodies ==
  {Body("object", {"aqi", "level", "components"}, Rat(a, 1), "Good",
        SomeComponents, NoInput) : a \in {42, 77}}

\* The provider fails, or reports air with nothing in it (index 0).
NewsCurrentResponses ==
  {Response("network", << >>),
   Response("list", <<Item(TRUE, 1, TRUE,
                           Components(Num(0), Num(0), Num(0), Num(0)), 1700)>>)}

\* The news is asked for by location alone.
LocationOnlyQueries == {NewsQuery("Chennai", << >>, "")}

NextNews ==
  \/ \E i \in Clients :
       PostStoreAirQuality(i, ThenNext, NewsStoreBodies)
  \/ \E i \in Clients : StoreAirQualityBody(i)
  \/ \E i \in Clients : GetCurrent(i, ThenNext, {<< <<"2">>, <<"3">> >>})
  \/ \E i \in Clients : RequestDirectApiTest(i)
  \/ \E i \in Clients :
       RequestMain(i, NewsCurrentResponses, NewsCurrentResponses)
  \/ \E i \in Clients : RequestBackoff(i)
  \/ \E i \in Clients :
       GetNewsAirQuality(i, ThenNext, LocationOnlyQueries)
  \/ \E i \in Clients : NewsSearch(i, {2}, BOOLEAN)
  \/ \E i \in Clients : NewsSummary(i)
  \/ \E i \in Clients : NewsSummaryWait(i)
  \/ NewsTick

SpecNews == InitNews /\ [][NextNews]_vars

\* Each segment is <<lo, hi, tlo, thi>>: concentrations lo..hi (hundredths)
\* map to the index range tlo..thi.
Pm25Table ==
  << <<0, 1200, 0, 50>>, <<1210, 3540, 51, 100>>, <<3550, 5540, 101, 150>>,
     <<5550, 15040, 151, 200>>, <<15050, 25040, 201, 300>>,
     <<25050, 35040, 301, 400>>, <<35050, 50000, 401, 500>> >>

Pm10Table ==
  << <<0, 5400, 0, 50>>, <<5500, 15400, 51, 100>>, <<15500, 25400, 101, 150>>,
     <<25500, 35400, 151, 200>>, <<35500, 50000, 201, 300>> >>

O3Table ==
  << <<0, 10800, 0, 50>>, <<10810, 14000, 51, 100>>, <<14010, 17000, 101, 150>>,
     <<17010, 21000, 151, 200>>, <<21010, 40000, 201, 300>> >>

\* The segment for concentration v: the first whose upper bound is >= v, the
\* last one otherwise.
SegmentFor(table, v) ==
  LET fit == {k \in 1..Len(table) : v <= table[k][2]}
  IN IF fit = {} THEN table[Len(table)]
     ELSE table[CHOOSE k \in fit : \A j \in fit : k <= j]

\* tlo + (v - lo) * (thi - tlo) / (hi - lo) on the segment for v.
TableSubIndex(table, v) ==
  LET g == SegmentFor(table, v)
  IN Rat(g[3] * (g[2] - g[1]) + (v - g[1]) * (g[4] - g[3]), g[2] - g[1])

NumericTriple(c) ==
  c.pm2_5.kind = "number" /\ c.pm10.kind = "number" /\ c.o3.kind = "number"

\* aqi is the integer nearest to the largest of the three sub-indices of c
\* (halves rounding up).
IsRoundedMax(aqi, c) ==
  LET subs == {TableSubIndex(Pm25Table, c.pm2_5.c),
               TableSubIndex(Pm10Table, c.pm10.c),
               TableSubIndex(O3Table, c.o3.c)}
  IN \E m \in subs :
       /\ \A x \in subs : JsLessEq(x, m)
       /\ ~aqi.nan
       /\ aqi.den = 1
       /\ (2 * aqi.num - 1) * m.den <= 2 * m.num
       /\ 2 * m.num < (2 * aqi.num + 1) * m.den

CurrentReturned == pc = "done" /\ result.kind = "current"

ForecastReturned == pc = "done" /\ result.kind = "forecast"

(***************************************************************************)
(* Claims                                                                  *)
(***************************************************************************)
\* C1: for every components record with numeric pm2_5, pm10 and o3 the aqi
\* that getCurrentAirQuality reports, and the one of every forecast entry, is
\* the rounded maximum of the three per-pollutant piecewise-linear
\* sub-indices of the observation it was computed from.
C1_AqiIsRoundedMax ==
  /\ CurrentReturned /\ NumericTriple(received.list[1].components)
       => IsRoundedMax(result.aqi, received.list[1].components)
  /\ ForecastReturned
       => \A i \in 1..Len(result.forecast) :
            NumericTriple(received.list[i].components)
              => IsRoundedMax(result.forecast[i].airQuality,
                              received.list[i].components)

\* A current result whose largest sub-index, PM2.5 at 10 ug/m3 (41.67), is
\* rounded up to 42.
C1_Witness ==
  /\ CurrentReturned
  /\ received.list[1].components.pm2_5 = Num(1000)
  /\ received.list[1].components.pm10 = Num(2000)
  /\ received.list[1].components.o3 = Num(1500)
  /\ result.aqi = Rat(42, 1)

\* C2: each sub-index is the interpolation tlo + (v - lo)(thi - tlo)/(hi - lo)
\* on the first segment whose upper bound is >= v (the last otherwise); for
\* pm2_5 in [0, 12] it is linearScale(pm2_5, 0, 12, 0, 50); linearScale maps
\* lo to tlo and hi to thi on every segment.
C2_SubIndexByTable ==
  /\ conv.called
       => /\ JsEq(conv.pm25AQI, TableSubIndex(Pm25Table, conv.components.pm2_5.c))
          /\ JsEq(conv.pm10AQI, TableSubIndex(Pm10Table, conv.components.pm10.c))
          /\ JsEq(conv.o3AQI, TableSubIndex(O3Table, conv.components.o3.c))
          /\ 0 <= conv.components.pm2_5.c /\ conv.components.pm2_5.c <= 1200
               => conv.pm25AQI
                    = Rat(conv.components.pm2_5.c * 50, 1200)
  /\ \A table \in {Pm25Table, Pm10Table, O3Table} :
       \A k \in 1..Len(table) :
         LET g == table[k]
         IN /\ JsEq(linearScale(Rat(g[1], 1), g[1], g[2], g[3], g[4]), Rat(g[3], 1))
            /\ JsEq(linearScale(Rat(g[2], 1), g[1], g[2], g[3], g[4]), Rat(g[4], 1))

\* A conversion with PM2.5 inside its third segment and one with PM2.5 in
\* the first.
C2_Witness ==
  /\ conv.called
  /\ prevConv.called
  /\ conv.components.pm2_5 = Num(4000)
  /\ prevConv.components.pm2_5 = Num(1000)
  /\ prevConv.pm25AQI = Rat(50000, 1200)

\* The category table of the specification and of the README: the level and
\* colour of each band of the index, first match wins.
AqiBands ==
  << <<50, "Good", "green">>, <<100, "Moderate", "yellow">>,
     <<150, "Unhealthy for Sensitive Groups", "orange">>,
     <<200, "Unhealthy", "red">>, <<300, "Very Unhealthy", "purple">> >>

\* level and color are what the table assigns to aqi: those of the first band
\* whose upper bound is >= aqi, and Hazardous/maroon exactly when aqi > 300.
FollowsTable(aqi, level, color) ==
  /\ ~aqi.nan
  /\ LET fit == {k \in 1..Len(AqiBands) : aqi.num <= AqiBands[k][1] * aqi.den}
     IN IF fit = {} THEN level = "Hazardous" /\ color = "maroon"
        ELSE LET k == CHOOSE i \in fit : \A j \in fit : i <= j
             IN level = AqiBands[k][2] /\ color = AqiBands[k][3]

\* C3: in every result of getCurrentAirQuality and every forecast entry,
\* level and color are the ones the six-band table assigns to the returned
\* aqi, so that Hazardous/maroon appears only when aqi > 300.
C3_LevelColorFollowAqi ==
  /\ CurrentReturned => FollowsTable(result.aqi, result.level, result.color)
  /\ ForecastReturned
       => \A i \in 1..Len(result.forecast) :
            FollowsTable(result.forecast[i].airQuality,
                         result.forecast[i].level, result.forecast[i].color)

\* C4: of two conversions whose records differ only in one of pm2_5, pm10
\* and o3, the one with the larger concentration has no smaller aqi.
C4_Monotonic ==
  conv.called /\ prevConv.called
    => \A f \in {"pm2_5", "pm10", "o3"} :
         (\A g \in ComponentFields \ {f} :
            prevConv.components[g] = conv.components[g])
           => /\ prevConv.components[f].c <= conv.components[f].c
                   => JsLessEq(prevConv.aqi, conv.aqi)
              /\ conv.components[f].c <= prevConv.components[f].c
                   => JsLessEq(conv.aqi, prevConv.aqi)

\* PM10 raised from the end of its first segment (54) into the gap before
\* the second (54.5), the other pollutants at zero.
C4_Witness ==
  /\ conv.called
  /\ prevConv.called
  /\ prevConv.components = Components(Num(0), Num(5400), Num(0), Num(20000))
  /\ conv.components = Components(Num(0), Num(5450), Num(0), Num(20000))
  /\ prevConv.aqi = Rat(50, 1)
  /\ conv.aqi = Rat(51, 1)

\* The sub-index of the pollutant with table t is the largest of the three.
Dominant(x, c) == \A y \in {c.pm25AQI, c.pm10AQI, c.o3AQI} : JsLessEq(y, x)

OnBoundary(table, v, sub, aqi) ==
  \A k \in 1..Len(table) :
    /\ v = Num(table[k][2]) => aqi = Rat(table[k][4], 1)
    /\ v = Num(table[k][1]) => aqi = Rat(table[k][3], 1)

\* C5: with PM2.5 dominant, pm2_5 = 12.0 gives aqi 50 and pm2_5 = 12.1 gives
\* aqi 51; for each pollutant, when it is dominant, a segment's upper
\* concentration bound gives the segment's upper index bound and the next
\* segment's lower concentration bound gives that segment's lower index bound.
C5_BoundaryContinuity ==
  conv.called
    => /\ Dominant(conv.pm25AQI, conv)
            => /\ conv.components.pm2_5 = Num(1200) => conv.aqi = Rat(50, 1)
               /\ conv.components.pm2_5 = Num(1210) => conv.aqi = Rat(51, 1)
               /\ OnBoundary(Pm25Table, conv.components.pm2_5, conv.pm25AQI, conv.aqi)
       /\ Dominant(conv.pm10AQI, conv)
            => OnBoundary(Pm10Table, conv.components.pm10, conv.pm10AQI, conv.aqi)
       /\ Dominant(conv.o3AQI, conv)
            => OnBoundary(O3Table, conv.components.o3, conv.o3AQI, conv.aqi)

\* PM2.5 moved from 12.0 to 12.1 while dominant: aqi 50, then 51.
C5_Witness ==
  /\ conv.called
  /\ prevConv.called
  /\ prevConv.components.pm2_5 = Num(1200)
  /\ conv.components.pm2_5 = Num(1210)
  /\ Dominant(prevConv.pm25AQI, prevConv)
  /\ Dominant(conv.pm25AQI, conv)
  /\ prevConv.aqi = Rat(50, 1)
  /\ conv.aqi = Rat(51, 1)

OtherFields == ComponentFields \ {"pm2_5", "pm10", "o3"}

InvalidConcentration(x) == x.kind # "number" \/ x.c < 0

InvalidTriple(c) ==
  InvalidConcentration(c.pm2_5) \/ InvalidConcentration(c.pm10)
    \/ InvalidConcentration(c.o3)

\* C7: a negative, missing or non-numeric pm2_5, pm10 or o3 makes the
\* conversion signal an error: no attempt on such an observation returns an
\* aqi/level/color result.
C7_InvalidConcentrationRejected ==
  /\ CurrentReturned => ~InvalidTriple(received.list[1].components)
  /\ ForecastReturned
       => \A i \in 1..Len(result.forecast) :
            ~InvalidTriple(received.list[i].components)

\* C8: the aqi of every result of getCurrentAirQuality and of every forecast
\* entry is never negative.
C8_AqiNeverNegative ==
  /\ CurrentReturned => result.aqi.nan \/ result.aqi.num >= 0
  /\ ForecastReturned
       => \A i \in 1..Len(result.forecast) :
            result.forecast[i].airQuality.nan
              \/ result.forecast[i].airQuality.num >= 0

\* No number can be read from the start of s: after an optional sign there
\* is neither a digit, nor a point followed by a digit, nor Infinity.
NonNumeric(s) ==
  LET t == IF Len(s) >= 1 /\ s[1] = "-" THEN Tail(s) ELSE s
  IN ~ \/ Len(t) >= 1 /\ (isDigit(t[1]) \/ t[1] = "Infinity")
       \/ Len(t) >= 2 /\ t[1] = "." /\ isDigit(t[2])

NoUpstreamRequest == testRequests = 0 /\ mainRequests = 0

\* C9 as stated: getCurrentAirQuality with a non-numeric lat or lon fails with
\* the invalid-coordinates error, and no upstream request precedes it.
C9_InvalidCoordinatesError ==
  op = "current" /\ (NonNumeric(lat) \/ NonNumeric(lon))
    => pc = "done" /\ thrown = InvalidCoordinates /\ NoUpstreamRequest

\* C9, amended: getCurrentAirQuality with a lat or lon from which no number
\* can be read fails before any upstream request, diagnostic or main, is
\* issued: with the invalid-coordinates error when an API key is available,
\* and with the missing-key error when none is.
C9_FailsBeforeAnyRequest ==
  op = "current" /\ (NonNumeric(lat) \/ NonNumeric(lon))
    => /\ pc = "done"
       /\ NoUpstreamRequest
       /\ result.kind = "none"
       /\ thrown = IF OPENWEATHER_API_KEY = "" THEN MissingKeyCurrent
                   ELSE InvalidCoordinates

\* A call with lat "x" that failed with the invalid-coordinates error.
C9_Witness ==
  /\ op = "current"
  /\ lat = <<"x">>
  /\ pc = "done"
  /\ OPENWEATHER_API_KEY # ""
  /\ thrown = InvalidCoordinates

\* s is, as a whole, a finite decimal number.
FiniteNumber(s) ==
  parseFloat(s).kind = "finite" /\ parseFloat(s).used = Len(s)

\* C10: getCurrentAirQuality goes on to the upstream call only when lat and
\* lon are both finite numbers; any other lat or lon string ends the call
\* with the invalid-coordinates error (given a key).
C10_OnlyFiniteNumbersProceed ==
  op = "current" /\ OPENWEATHER_API_KEY # ""
    => IF FiniteNumber(lat) /\ FiniteNumber(lon)
         THEN thrown # InvalidCoordinates
         ELSE pc = "done" /\ thrown = InvalidCoordinates /\ NoUpstreamRequest

(***************************************************************************)
(* Retries                                                                 *)
(***************************************************************************)
\* A call has thrown out of its retry loop: every attempt it made failed.
RetriesExhausted == pc = "done" /\ thrown # "" /\ mainRequests > 0

\* C11: when every upstream attempt fails, each of the three calls makes
\* exactly 3 attempts, waits 1000 ms after the first failure and 2000 ms after
\* the second, does not wait after the third, and throws the error of the
\* last attempt.  At no time has a call waited more than twice, and its i-th
\* wait is of i x 1000 ms.
C11_ThreeAttemptsThenLastError ==
  /\ mainRequests <= 3
  /\ Len(delays) <= 2
  /\ \A i \in 1..Len(delays) : delays[i] = i * 1000
  /\ RetriesExhausted =>
       /\ mainRequests = 3
       /\ retryCount = 3
       /\ delays = <<1000, 2000>>
       /\ thrown = lastError
       /\ thrown = attemptError(op, received)
       /\ result = NoResult
       /\ (op = "current" => testRequests = 3)

C11_Witness ==
  /\ RetriesExhausted
  /\ op = "components"
  /\ delays = <<1000, 2000>>
  /\ thrown = "Network Error"

\* A 2xx response whose body is empty, lacks the list, or has an empty list.
EmptyBody(r) ==
  r.kind \in {"nodata", "nolist"} \/ (r.kind = "list" /\ Len(r.list) = 0)

\* C12: a 2xx response with an empty body, no list or an empty list ends its
\* attempt as a failure: the step that receives it counts one retry, records
\* an error and produces no result; before the third such failure the call
\* goes on to wait and retry, and at the third the call throws that error.
C12_EmptyBodyIsFailedAttempt ==
  [][(mainRequests' = mainRequests + 1 /\ EmptyBody(received')) =>
       /\ retryCount' = retryCount + 1
       /\ result' = NoResult
       /\ lastError' = attemptError(op, received')
       /\ lastError' # ""
       /\ (retryCount' < MAX_RETRIES => pc' = "backoff" /\ thrown' = "")
       /\ (retryCount' >= MAX_RETRIES => pc' = "done" /\ thrown' = lastError')]_vars

C12_Witness ==
  /\ RetriesExhausted
  /\ op = "forecast"
  /\ EmptyBody(received)
  /\ received.kind = "list"
  /\ retryCount = MAX_RETRIES

(***************************************************************************)
(* Forecast                                                                *)
(***************************************************************************)
Min(a, b) == IF a < b THEN a ELSE b

\* C19: a forecast that is returned holds exactly the first min(24, n) entries
\* of the provider's n-entry list, in the provider's order (entry i carries
\* the timestamp and the components of item i), and the aqi, level and color
\* of entry i are those of the converter applied to the components of item i
\* alone: any other list with the same item at place i gives the same entry
\* at place i.
C19_FirstDayInOrderEachOnItsOwn ==
  ForecastReturned =>
    LET list == received.list
        forecast == result.forecast
    IN /\ Len(forecast) = Min(24, Len(list))
       /\ \A i \in 1..Len(forecast) :
            /\ forecast[i].timestamp = list[i].dt * 1000
            /\ forecast[i].components = list[i].components
            /\ forecast[i].openWeatherAqi = list[i].aqi
            /\ forecast[i].airQuality =
                 convertToStandardAQI(list[i].aqi, list[i].components)
            /\ forecast[i].level = getAqiCategory(forecast[i].airQuality)
            /\ forecast[i].color = getAqiColor(forecast[i].airQuality)
            /\ \A other \in ForecastLists :
                 (i <= Len(other) /\ other[i] = list[i]) =>
                   forecastResult(other, lat, lon).forecast[i] = forecast[i]

C19_Witness ==
  /\ ForecastReturned
  /\ Len(received.list) = 26
  /\ Len(result.forecast) = 24
  /\ result.forecast[24].timestamp = received.list[24].dt * 1000
  /\ result.forecast[1].airQuality # result.forecast[2].airQuality

(***************************************************************************)
(* Routes                                                                  *)
(***************************************************************************)
\* Request i is answered in this step by the route.
Answered(i, route) ==
  /\ requests'[i] # requests[i]
  /\ requests'[i].pc = "done"
  /\ requests'[i].route = route

\* C13: a GET /api/current that succeeds (status 200) leaves in the
\* last-observation slot the aqi, level, components and timestamp it answers
\* with, together with the coordinates of the request; one that fails (missing
\* key, invalid coordinates, retries exhausted) answers 500 and leaves the slot
\* as it was.
C13_CurrentRecordsObservation ==
  [][\A i \in DOMAIN requests :
       Answered(i, "current") =>
         LET r == requests'[i]
         IN IF r.status = 200
              THEN lastAirQualityData' =
                     [aqi |-> r.body.aqi, level |-> r.body.level,
                      components |-> r.body.components,
                      location |-> [lat |-> QueryOr(r.input.lat, DefaultLat),
                                    lon |-> QueryOr(r.input.lon, DefaultLon)],
                      timestamp |-> r.body.timestamp]
            ELSE /\ r.status = 500
                 /\ r.thrown \in {MissingKeyCurrent, InvalidCoordinates,
                                  r.lastError}
                 /\ lastAirQualityData' = lastAirQualityData]_vars

C13_Witness ==
  \E i \in DOMAIN requests :
    /\ requests[i].route = "current"
    /\ requests[i].pc = "done"
    /\ requests[i].status = 200
    /\ requests[i].retryCount = 1
    /\ lastAirQualityData # NoObservation
    /\ lastAirQualityData.aqi = requests[i].body.aqi
    /\ lastAirQualityData.location = [lat |-> <<"1", ".", "1">>, lon |-> DefaultLon]

\* The body is a JSON object that lacks one of the three keys.
MissingRequired(data) ==
  /\ data.kind = "object"
  /\ ~({"aqi", "level", "components"} \subseteq data.has)

\* C14: POST /api/store-air-quality with a body that lacks aqi, level or
\* components answers 400 and leaves the last-observation slot as it was.
C14_MissingFieldRejected ==
  [][\A i \in DOMAIN requests :
       (Answered(i, "store") /\ MissingRequired(requests'[i].input)) =>
         /\ requests'[i].status = 400
         /\ lastAirQualityData' = lastAirQualityData]_vars

C14_Witness ==
  \E i \in DOMAIN requests :
    /\ requests[i].route = "store"
    /\ requests[i].pc = "done"
    /\ requests[i].input.kind = "object"
    /\ requests[i].input.has = {"aqi", "level"}
    /\ requests[i].status = 400
    /\ lastAirQualityData # NoObservation

\* C15: POST /api/store-air-quality with a body that supplies aqi (any
\* number, 0 included), a level and components answers 200 {success: true}
\* and leaves in the slot those values, with location {lat: "0", lon: "0"}
\* when the body has no location.
C15_SuppliedBodyStored ==
  [][\A i \in DOMAIN requests :
       LET data == requests'[i].input
       IN (/\ Answered(i, "store")
           /\ data.kind = "object"
           /\ {"aqi", "level", "components"} \subseteq data.has
           /\ data.level # "") =>
            /\ requests'[i].status = 200
            /\ requests'[i].body = [success |-> TRUE]
            /\ lastAirQualityData' =
                 [aqi |-> data.aqi, level |-> data.level,
                  components |-> data.components,
                  location |-> IF "location" \in data.has THEN data.location
                               ELSE [lat |-> <<"0">>, lon |-> <<"0">>],
                  timestamp |-> now]]_vars

\* Texts that name the credential that is missing.
CredentialTexts ==
  {MissingKeyCurrent, MissingKeyOther, "Missing OpenWeather API key",
   "OpenRouter API key is missing"}

\* The key the route of request l needs is nowhere to be found.
NeededKeyAbsent(l) ==
  \/ /\ l.route \in {"current", "components", "forecast"}
     /\ cEnv.OPENWEATHER_API_KEY = ""
     /\ envKey = ""
  \/ /\ l.route = "recommendations"
     /\ l.input.kind = "object"
     /\ ~FalsyString(l.input, "prompt")
     /\ cEnv.OPENROUTER_API_KEY = ""
     /\ processEnv.OPENROUTER_API_KEY = ""

\* C16: a request to /api/current, /api/components, /api/forecast or
\* /api/urban-planning/recommendations made when the key the route needs is
\* absent is answered with status 500 and a body whose error or message names
\* the missing credential, without any upstream request.
C16_MissingKeyIsConfigurationError ==
  \A i \in DOMAIN requests :
    (requests[i].pc = "done" /\ NeededKeyAbsent(requests[i])) =>
      /\ requests[i].status = 500
      /\ requests[i].upstream = 0
      /\ \E f \in DOMAIN requests[i].body \cap {"error", "message"} :
           requests[i].body[f] \in CredentialTexts

\* C17: a GET /api/current whose lat or lon is given and is not a number is
\* answered with status 400.
C17_MalformedCoordinates400 ==
  \A i \in DOMAIN requests :
    (/\ requests[i].pc = "done"
     /\ requests[i].route = "current"
     /\ \/ requests[i].input.lat # << >> /\ NonNumeric(requests[i].input.lat)
        \/ requests[i].input.lon # << >> /\ NonNumeric(requests[i].input.lon)) =>
      requests[i].status = 400

\* C18: every answer that reports a failure (status 400 or above) is a JSON
\* object with an error key and a message key.
C18_ErrorBodyHasErrorAndMessage ==
  \A i \in DOMAIN requests :
    (requests[i].pc = "done" /\ requests[i].status >= 400) =>
      {"error", "message"} \subseteq DOMAIN requests[i].body

\* C20: with two writers and one news request handled concurrently, the
\* last-observation slot always equals the object of the write that was
\* executed last.
C20_LastWriteWins == lastAirQualityData = lastWrite

\* The news summary was made from an observation that a request for
\* coordinates of its own choosing had stored.
NewsUsesAnotherRequestsValue ==
  \E n \in NewsReaders, w \in Writers :
    /\ requests[n].pc = "done"
    /\ requests[n].body.aiSummary.kind = "summary"
    /\ requests[w].route = "current"
    /\ requests[w].status = 200
    /\ requests[n].body.aiSummary.airQualityData.location =
         [lat |-> requests[w].lat, lon |-> requests[w].lon]

(***************************************************************************)
(* C23                                                                     *)
(***************************************************************************)
\* The observation with pm2_5 = 10, pm10 = 20, o3 = 15 ug/m3.
IsScenario(c) ==
  c.pm2_5 = Num(1000) /\ c.pm10 = Num(2000) /\ c.o3 = Num(1500)

\* C23: for components {pm2_5: 10, pm10: 20, o3: 15} the PM2.5 sub-index is
\* the largest of the three sub-indices and getCurrentAirQuality returns
\* aqi = 42, level "Good", color "green".
C23_ScenarioIs42Good ==
  (result.kind = "current" /\ IsScenario(result.components)) =>
    /\ JsLessEq(pm10AQI(result.components.pm10), pm25AQI(result.components.pm2_5))
    /\ JsLessEq(o3AQI(result.components.o3), pm25AQI(result.components.pm2_5))
    /\ result.aqi = Rat(42, 1)
    /\ result.level = "Good"
    /\ result.color = "green"

C23_Witness ==
  /\ pc = "done"
  /\ result.kind = "current"
  /\ IsScenario(result.components)

(***************************************************************************)
(* C27                                                                     *)
(***************************************************************************)
\* The sub-index of a concentration v (hundredths) beyond the last segment
\* g = <<lo, hi, tlo, thi>> of a table, continued at that segment's rate:
\* thi + (v - hi)(thi - tlo)/(hi - lo).
Extrapolated(g, v) ==
  Rat((v - g[2]) * (g[4] - g[3]) + g[4] * (g[2] - g[1]), g[2] - g[1])

\* sub is the continuation of the table's last segment at v, and lies above
\* that segment's upper index.
BeyondTable(table, v, sub) ==
  LET g == table[Len(table)]
  IN v > g[2] =>
       /\ JsEq(sub, Extrapolated(g, v))
       /\ ~JsLessEq(sub, Rat(g[4], 1))

\* C27: for a concentration above the last breakpoint of its pollutant
\* (pm2_5 > 500, pm10 > 500, o3 > 400) the converter returns a number; the
\* pollutant's sub-index continues the last segment at that segment's rate
\* and so exceeds the segment's upper index, and the level is Hazardous
\* whenever the resulting aqi is above 300.
C27_ExtrapolatesBeyondTable ==
  conv.called =>
    /\ BeyondTable(Pm25Table, conv.components.pm2_5.c, conv.pm25AQI)
    /\ BeyondTable(Pm10Table, conv.components.pm10.c, conv.pm10AQI)
    /\ BeyondTable(O3Table, conv.components.o3.c, conv.o3AQI)
    /\ (\/ conv.components.pm2_5.c > 50000
        \/ conv.components.pm10.c > 50000
        \/ conv.components.o3.c > 40000) =>
         /\ ~conv.aqi.nan
         /\ ~JsLessEq(conv.aqi, Rat(300, 1)) => conv.level = "Hazardous"

\* A conversion of ozone at 450 ug/m3, next to fine particles at 600 ug/m3
\* that make the index pass 500.
C27_Witness ==
  /\ conv.called
  /\ conv.components.o3 = Num(45000)
  /\ conv.components.pm2_5 = Num(60000)
  /\ ~JsLessEq(conv.aqi, Rat(500, 1))
  /\ conv.level = "Hazardous"

(***************************************************************************)
(* C24                                                                     *)
(***************************************************************************)
AirQualityRoutes == {"current", "components", "forecast"}

\* C24: the gateway function called by /current, /components or /forecast
\* gets lat = "37.7749" when the query has no lat and lon = "-122.4194" when
\* it has no lon, and gets a parameter the query does have as it is.
C24_DefaultCoordinates ==
  \A i \in DOMAIN requests :
    (requests[i].route \in AirQualityRoutes /\ requests[i].op # "none") =>
      /\ requests[i].op = requests[i].route
      /\ requests[i].lat =
           IF requests[i].input.lat = << >>
             THEN <<"3", "7", ".", "7", "7", "4", "9">>
           ELSE requests[i].input.lat
      /\ requests[i].lon =
           IF requests[i].input.lon = << >>
             THEN <<"-", "1", "2", "2", ".", "4", "1", "9", "4">>
           ELSE requests[i].input.lon

\* A forecast request without lat and with lon = -1 that was answered with a
\* forecast for (37.7749, -1).
C24_Witness ==
  \E i \in DOMAIN requests :
    /\ requests[i].route = "forecast"
    /\ requests[i].pc = "done"
    /\ requests[i].status = 200
    /\ requests[i].input.lat = << >>
    /\ requests[i].input.lon = <<"-", "1">>
    /\ requests[i].body.location =
         [lat |-> <<"3", "7", ".", "7", "7", "4", "9">>, lon |-> <<"-", "1">>]

(***************************************************************************)
(* C25                                                                     *)
(***************************************************************************)
CallRunning == pc \in {"test", "main", "backoff"}

\* The call has ended in exactly one of the two ways.
EndedOneWay == (result # NoResult) # (thrown # "")

\* The counters of a call stay within the three attempts, and a call that
\* has ended has returned a result or thrown an error, never both.
CallWithinAttempts ==
  /\ retryCount <= 3
  /\ mainRequests <= 3
  /\ Len(delays) <= 2
  /\ pc = "done" => EndedOneWay
  /\ CallRunning => result = NoResult /\ thrown = ""

\* The attempt that produces a result ends the call in that very step, and
\* what follows a call that has ended is the entry of another call.
ReturnsAtOnce ==
  /\ (result = NoResult /\ result' # NoResult) =>
       /\ pc' = "done"
       /\ delays' = delays
       /\ retryCount' = retryCount
  /\ pc = "done" =>
       /\ mainRequests' = 0
       /\ testRequests' = 0
       /\ delays' = << >>

\* C25: every call of the three gateway functions ends, in a result or in an
\* error and never in both; the attempt counter never passes 3; the attempt
\* that succeeds returns at once, with no further request and no further
\* wait.
C25_CallTerminates ==
  /\ []CallWithinAttempts
  /\ [][ReturnsAtOnce]_vars
  /\ CallRunning ~> (pc = "done")

\* A forecast call that returned a result on its third attempt, after two
\* waits.
C25_Witness ==
  /\ pc = "done"
  /\ op = "forecast"
  /\ result # NoResult
  /\ retryCount = 2
  /\ mainRequests = 3
  /\ Len(delays) = 2

(***************************************************************************)
(* C28                                                                     *)
(***************************************************************************)
\* The main request came back with a list whose first item has main and
\* components.
MainSucceeded(r) ==
  /\ r.kind = "list"
  /\ Len(r.list) >= 1
  /\ r.list[1].hasMain
  /\ r.list[1].hasComponents

\* A step of a call of getCurrentAirQuality: the diagnostic request changes
\* neither the attempt counter nor the outcome of the call, and the main
\* request decides the attempt whatever the diagnostic request came to.
MainRequestDecides ==
  (op = "current" /\ op' = "current") =>
    /\ testRequests' = testRequests + 1 =>
         /\ retryCount' = retryCount
         /\ lastError' = lastError
         /\ result' = result
         /\ thrown' = thrown
         /\ pc' = "main"
    /\ mainRequests' = mainRequests + 1 =>
         IF MainSucceeded(received')
           THEN /\ pc' = "done"
                /\ result' # NoResult
                /\ thrown' = ""
                /\ retryCount' = retryCount
         ELSE /\ result' = NoResult
              /\ retryCount' = retryCount + 1
              /\ lastError' # ""

\* C28: in getCurrentAirQuality the main request alone decides an attempt: a
\* failed diagnostic request neither counts as an attempt nor fails the
\* call, and an answered diagnostic request does not make an attempt succeed
\* whose main request failed.
C28_MainRequestAloneDecides == [][MainRequestDecides]_vars

\* A call that returned on its first attempt although the diagnostic request
\* of that attempt had failed.
C28_Witness ==
  /\ op = "current"
  /\ pc = "done"
  /\ testOutcome = "failed"
  /\ testRequests = 1
  /\ retryCount = 0
  /\ result # NoResult

(***************************************************************************)
(* C22                                                                     *)
(***************************************************************************)
CrossOriginHeaders ==
  {"Access-Control-Allow-Origin", "Access-Control-Allow-Methods",
   "Access-Control-Allow-Headers"}

\* Every response that was sent carries the three headers, each with a
\* value, and the response to an OPTIONS request is a 204 without a body
\* that no handler and no upstream request stands behind.
ResponsesCarryHeaders ==
  \A i \in DOMAIN requests :
    requests[i].pc = "done" =>
      /\ CrossOriginHeaders \subseteq DOMAIN requests[i].headers
      /\ \A h \in CrossOriginHeaders : requests[i].headers[h] # ""
      /\ requests[i].method = "OPTIONS" =>
           /\ requests[i].status = 204
           /\ requests[i].body = NullBody
           /\ requests[i].route = "none"
           /\ requests[i].op = "none"
           /\ requests[i].upstream = 0

\* The step that takes in an OPTIONS request answers it and changes nothing
\* that a handler changes.
OptionsRunsNoHandler ==
  \A i \in DOMAIN requests :
    (requests'[i] # requests[i] /\ requests'[i].method = "OPTIONS") =>
      /\ requests'[i].pc = "done"
      /\ UNCHANGED <<lastAirQualityData, serviceNewsCache, routeNewsCache,
                     OPENWEATHER_API_KEY, SERPER_API_KEY, genAI>>

\* C22: an OPTIONS request to any path is answered 204 with an empty body
\* and without running a route handler, and every response of every method
\* carries Access-Control-Allow-Origin, -Methods and -Headers.
C22_CorsOnEveryResponse ==
  /\ []ResponsesCarryHeaders
  /\ [][OptionsRunsNoHandler]_vars

\* An OPTIONS request from an origin that is not listed, to the path of a
\* handler that writes the slot, answered 204 with the origin "*", the slot
\* holding an observation stored before.
C22_Witness ==
  \E i \in DOMAIN requests :
    /\ requests[i].pc = "done"
    /\ requests[i].method = "OPTIONS"
    /\ requests[i].origin = "https://example.org"
    /\ requests[i].input.path = "/api/store-air-quality"
    /\ requests[i].status = 204
    /\ requests[i].headers["Access-Control-Allow-Origin"] = "*"
    /\ lastAirQualityData # NoObservation

(***************************************************************************)
(* C21                                                                     *)
(***************************************************************************)
\* The step in which request i, a news request that invoked the news
\* service, is answered.
NewsAnswered(i) ==
  /\ requests'[i] # requests[i]
  /\ requests'[i].route = "news"
  /\ requests'[i].pc = "done"
  /\ requests'[i].serviceCalls = 1

\* The entries of the service's cache for the location of request i, before
\* the step.
CachedBefore(i) ==
  {e \in serviceNewsCache : e.key = toLowerCase(requests'[i].location)}

\* The search request failed, the service's own call of getCurrentAirQuality
\* failed, or the summary could not be made.
ProviderFailed(l) == l.searchFailed \/ l.thrown # "" \/ l.caught # ""

\* The statement as it was made: no failure reaches the caller, and whenever
\* a provider failed the answer is the cached response of the location if
\* there is one, and a response without articles otherwise.
C21_FailureGivesCachedOrFallback ==
  [][\A i \in DOMAIN requests :
       NewsAnswered(i) =>
         /\ requests'[i].status = 200
         /\ ProviderFailed(requests'[i]) =>
              IF CachedBefore(i) # {}
                THEN \E e \in CachedBefore(i) : requests'[i].body = e.data
              ELSE /\ requests'[i].body.articles = 0
                   /\ "aiSummary" \in DOMAIN requests'[i].body]_vars

\* What getAirQualityNews makes of the failure of each provider.
FailureHandled(i) ==
  LET l == requests'[i]
  IN /\ l.status = 200
     /\ DOMAIN l.body = {"articles", "aiSummary"}
     /\ l.caught # "" =>
          IF CachedBefore(i) # {}
            THEN \E e \in CachedBefore(i) : l.body = e.data
          ELSE l.body = [articles |-> 0,
                         aiSummary |-> [kind |-> "error", message |-> l.caught]]
     /\ (l.caught = "" /\ l.searchResults = 0 /\ CachedBefore(i) # {}) =>
          \E e \in CachedBefore(i) : l.body = e.data
     /\ (l.caught = "" /\ l.thrown # "" /\ l.attempts > 0) =>
          /\ l.body.articles = l.searchResults
          /\ l.body.aiSummary.kind = "summary"
          /\ l.body.aiSummary.airQualityData.aqi = Rat(50, 1)
          /\ l.body.aiSummary.airQualityData.level = "Moderate"

\* C21 (amended): getAirQualityNews never hands an upstream failure on to its
\* caller.  When the summary cannot be made (or the Gemini client is
\* missing) it returns the cached response of the location, whatever its
\* age, and otherwise {articles: [], aiSummary: "Error: ..."}; when the
\* search gives no article it returns the cached response if there is one
\* and goes on without articles otherwise; when its own call of
\* getCurrentAirQuality fails it goes on with a made-up observation (aqi 50,
\* "Moderate") and returns the summary made from it.
C21_NeverPropagates ==
  [][\A i \in DOMAIN requests : NewsAnswered(i) => FailureHandled(i)]_vars

\* A request whose summary failed three times and that was answered with a
\* cached summary an hour old.
C21_Witness ==
  \E i \in DOMAIN requests :
    /\ requests[i].route = "news"
    /\ requests[i].pc = "done"
    /\ requests[i].attempts = 3
    /\ requests[i].caught # ""
    /\ requests[i].body.aiSummary.kind = "summary"
    /\ \E e \in serviceNewsCache :
         /\ e.data = requests[i].body
         /\ now - e.timestamp >= 60 * 60 * 1000

\* The service's own call of getCurrentAirQuality failed and the request was
\* answered with articles and a summary of the made-up observation.
NewsFromMadeUpObservation ==
  \E i \in DOMAIN requests :
    /\ requests[i].route = "news"
    /\ requests[i].pc = "done"
    /\ requests[i].thrown # ""
    /\ requests[i].body.articles = 2
    /\ requests[i].body.aiSummary.kind = "summary"

(***************************************************************************)
(* C26                                                                     *)
(***************************************************************************)
\* C26: global.lastAirQualityData changes only in a step that answers a GET
\* /current or a POST /store-air-quality with success, and then to the whole
\* object of that write; the news route and the news service leave it as it
\* is.
C26_OnlyCurrentAndStoreWrite ==
  [][lastAirQualityData' # lastAirQualityData =>
       /\ lastAirQualityData' = lastWrite'
       /\ \E i \in DOMAIN requests :
            /\ requests'[i] # requests[i]
            /\ requests'[i].route \in {"current", "store"}
            /\ requests'[i].pc = "done"
            /\ requests'[i].status = 200]_vars

(***************************************************************************)
(* C29                                                                     *)
(***************************************************************************)
\* The key as stated: the location with the slot's aqi, or with "unknown" when
\* the slot is empty.
StatedKey(location, slot) ==
  [location |-> location,
   aqi |-> IF slot = NoObservation THEN [unknown |-> TRUE] ELSE slot.aqi]

\* The entries of the route's cache under the stated key of request i that
\* are less than 30 minutes old.
FreshUnderKey(i) ==
  {e \in routeNewsCache :
     /\ e.key = StatedKey(requests'[i].location, lastAirQualityData')
     /\ now - e.timestamp < 30 * 60 * 1000}

\* C29: a news request is answered from the route's cache, the news service
\* not being invoked, exactly when the cache has an entry under the key of
\* the location and the slot's aqi ("unknown" for an empty slot) that is
\* less than 30 minutes old; otherwise the service is invoked once and its
\* result is stored under that key with the current time.
C29_RouteCacheByLocationAndAqi ==
  [][\A i \in DOMAIN requests :
       /\ (/\ requests[i].pc \in {"idle", "done"}
           /\ requests'[i] # requests[i]
           /\ requests'[i].route = "news") =>
            IF FreshUnderKey(i) # {}
              THEN /\ requests'[i].serviceCalls = 0
                   /\ requests'[i].pc = "done"
                   /\ \E e \in FreshUnderKey(i) : requests'[i].body = e.data
            ELSE requests'[i].serviceCalls = 1
       /\ NewsAnswered(i) =>
            [key |-> StatedKey(requests'[i].location, lastAirQualityData'),
             data |-> requests'[i].body,
             timestamp |-> now] \in routeNewsCache']_vars

(***************************************************************************)
(* C30                                                                     *)
(***************************************************************************)
\* C30: every entry of the news service's cache and of the news route's
\* cache holds a response whose summary was generated, never the error
\* value returned when a provider failed.
C30_NoDegradedResponseCached ==
  \A e \in serviceNewsCache \cup routeNewsCache :
    e.data.aiSummary.kind = "summary"

====
